---- MODULE Spec2Model ----
(***************************************************************************)
(* Model of the mogura-novel static site generator (tools/*.py):           *)
(*   md.py       md_to_json        section parser                          *)
(*   story.py    Story             single-document validator and hash      *)
(*   novel.py    Novel             collection validator, chapter partition *)
(*   toppage.py  TopPage           aggregator and display ordering         *)
(*   publish.py  main, history     change-tracking history                 *)
(*                                                                         *)
(* A Python str is a sequence of one-character strings; a text file is the *)
(* sequence of its lines as `for raw_line in f` yields them, each without  *)
(* its line terminator.                                                    *)
(***************************************************************************)
EXTENDS Integers, Sequences, FiniteSets, TLC

VARIABLES
    mdDoc,      \* md_to_json: the lines of the file being read
    mdPos,      \* md_to_json: number of lines consumed by the for loop
    mdSt,       \* md_to_json: locals result, current_key, buffer (+ raised)
    mdRet,      \* md_to_json: <<>> while running, <<outcome>> once it returned or raised
    stFs,       \* story files: path -> the file's lines, or NoFile
    stRet,      \* path -> <<>>, or <<what Story.load_if_valid(path) returned>>
    stHash,     \* path -> <<>>, or <<what hash() of the Story at path returned>>
    nvFs,       \* the file system holding one novel directory
    nvRet,      \* <<>>, or <<what Novel.load_if_valid(index.md) returned>>
    nvView,     \* <<>>, or <<what get_stories_ordered() of the returned Novel gave>>
    nvCall,     \* <<>>, or <<a direct call of Story.load_if_valid or md_to_json on a file>>
    hsFile,     \* data/update_history.csv: NoFile, or the file with its csv rows
    hsClock,    \* the system clock, in ticks of 1/TicksPerSecond second
    hsMain,     \* main(): where it stands, its history dict, its now_iso
    hsLog,      \* the last two calls of update_history_entry, oldest first
    hsCalls,    \* all calls of update_history_entry so far, summed up by key
    pbFs,       \* the private/ tree, the same in both checkouts
    pbMtime,    \* checkout -> the mtimes of its files
    pbCsv,      \* checkout -> its data/update_history.csv
    pbRun       \* checkout -> the run of main() in it

mdVars == <<mdDoc, mdPos, mdSt, mdRet>>

stVars == <<stFs, stRet, stHash>>

nvVars == <<nvFs, nvRet, nvView, nvCall>>

hsVars == <<hsFile, hsClock, hsMain, hsLog, hsCalls>>

pbVars == <<pbFs, pbMtime, pbCsv, pbRun>>

vars == <<mdDoc, mdPos, mdSt, mdRet, stFs, stRet, stHash, nvFs, nvRet, nvView, nvCall,
          hsFile, hsClock, hsMain, hsLog, hsCalls, pbFs, pbMtime, pbCsv, pbRun>>

\* what each component's steps leave alone
notMdVars == <<stVars, nvVars, hsVars, pbVars>>
notStVars == <<mdVars, nvVars, hsVars, pbVars>>
notNvVars == <<mdVars, stVars, hsVars, pbVars>>
notHsVars == <<mdVars, stVars, nvVars, pbVars>>
notPbVars == <<mdVars, stVars, nvVars, hsVars>>

-----------------------------------------------------------------------------
(* Python str helpers                                                      *)

\* the characters str.strip()/lstrip() remove that can occur in the model
Whitespace == {" ", "\n", "\t", "\r"}

RECURSIVE LStrip(_)
LStrip(s) ==
    IF s = <<>> THEN <<>>
    ELSE IF Head(s) \in Whitespace THEN LStrip(Tail(s)) ELSE s

RECURSIVE RStrip(_)
RStrip(s) ==
    IF s = <<>> THEN <<>>
    ELSE IF s[Len(s)] \in Whitespace THEN RStrip(SubSeq(s, 1, Len(s) - 1)) ELSE s

Strip(s) == RStrip(LStrip(s))

StartsWith(s, p) == Len(s) >= Len(p) /\ SubSeq(s, 1, Len(p)) = p

EndsWith(s, p) == Len(s) >= Len(p) /\ SubSeq(s, Len(s) - Len(p) + 1, Len(s)) = p

\* s[n:]
DropPrefix(s, n) == SubSeq(s, n + 1, Len(s))

\* sep.join(parts)
RECURSIVE Join(_, _)
Join(parts, sep) ==
    IF parts = <<>> THEN <<>>
    ELSE IF Len(parts) = 1 THEN parts[1]
    ELSE parts[1] \o sep \o Join(Tail(parts), sep)

\* an insertion-ordered dict is a sequence of <<key, value>> pairs
DictKeys(d) == [i \in 1..Len(d) |-> d[i][1]]

DictHas(d, k) == \E i \in 1..Len(d) : d[i][1] = k

DictGet(d, k, default) ==
    IF DictHas(d, k) THEN d[CHOOSE i \in 1..Len(d) : d[i][1] = k][2] ELSE default

\* d[k] = v: an existing key keeps its position, a new key is appended
DictSet(d, k, v) ==
    IF DictHas(d, k)
    THEN [i \in 1..Len(d) |-> IF d[i][1] = k THEN <<k, v>> ELSE d[i]]
    ELSE Append(d, <<k, v>>)

-----------------------------------------------------------------------------
(* md.py: md_to_json                                                       *)

H1Prefix == <<"#", " ">>

LineBreak == <<"\n">>

\* Optional values: <<>> is None, <<x>> is x
None == <<>>
Some(x) == <<x>>

\* the locals with current_key started as the empty string instead of None
MdStartEmptyKey ==
    [result |-> <<>>, current_key |-> Some(<<>>), buffer |-> <<>>, raised |-> None]

\* result = {}, current_key = None, buffer = []
MdStart == [result |-> <<>>, current_key |-> None, buffer |-> <<>>, raised |-> None]

\* the flush of md.py lines 83-86 and 99-101
MdFlush(st) ==
    IF st.current_key # None
    THEN DictSet(st.result, st.current_key[1], Join(st.buffer, LineBreak))
    ELSE st.result

\* MdLine with the duplicate test made before the flush of the previous key
MdLineCheckBeforeFlush(st, line) ==
    LET stripped == LStrip(line) IN
    IF StartsWith(stripped, H1Prefix)
    THEN LET key     == Strip(DropPrefix(stripped, 2))
             flushed == MdFlush(st)
             buf     == IF st.current_key # None THEN <<>> ELSE st.buffer
         IN  IF DictHas(st.result, key)
             THEN [st EXCEPT !.result = flushed, !.buffer = buf, !.raised = Some(key)]
             ELSE [st EXCEPT !.result = flushed, !.buffer = buf,
                             !.current_key = Some(key)]
    ELSE IF st.current_key # None
         THEN [st EXCEPT !.buffer = Append(st.buffer, line)]
         ELSE st

\* MdLine collecting the stripped line instead of the raw one
MdLineStripsBody(st, line) ==
    LET stripped == LStrip(line) IN
    IF StartsWith(stripped, H1Prefix)
    THEN LET key     == Strip(DropPrefix(stripped, 2))
             flushed == MdFlush(st)
             buf     == IF st.current_key # None THEN <<>> ELSE st.buffer
         IN  IF DictHas(flushed, key)
             THEN [st EXCEPT !.result = flushed, !.buffer = buf, !.raised = Some(key)]
             ELSE [st EXCEPT !.result = flushed, !.buffer = buf,
                             !.current_key = Some(key)]
    ELSE IF st.current_key # None
         THEN [st EXCEPT !.buffer = Append(st.buffer, stripped)]
         ELSE st

\* MdLine with a marker line required to carry a name
MdLineNamedOnly(st, line) ==
    LET stripped == LStrip(line)
        key      == Strip(DropPrefix(stripped, 2))
        flushed  == MdFlush(st)
        buf      == IF st.current_key # None THEN <<>> ELSE st.buffer
    IN  IF StartsWith(stripped, H1Prefix) /\ key # <<>>
        THEN IF DictHas(flushed, key)
             THEN [st EXCEPT !.result = flushed, !.buffer = buf, !.raised = Some(key)]
             ELSE [st EXCEPT !.result = flushed, !.buffer = buf, !.current_key = Some(key)]
        ELSE IF st.current_key # None
             THEN [st EXCEPT !.buffer = Append(st.buffer, line)]
             ELSE st

\* one iteration of the for loop over the file's lines
MdLine(st, line) ==
    LET stripped == LStrip(line) IN
    IF StartsWith(stripped, H1Prefix)
    THEN LET key     == Strip(DropPrefix(stripped, 2))
             flushed == MdFlush(st)
             buf     == IF st.current_key # None THEN <<>> ELSE st.buffer
         IN  IF DictHas(flushed, key)
             THEN [st EXCEPT !.result = flushed, !.buffer = buf, !.raised = Some(key)]
             ELSE [st EXCEPT !.result = flushed, !.buffer = buf,
                             !.current_key = Some(key)]
    ELSE IF st.current_key # None
         THEN [st EXCEPT !.buffer = Append(st.buffer, line)]
         ELSE st

\* what md_to_json gives its caller: the dict, or JsonKeyDuplicateError(key)
MdOutcome(st) ==
    IF st.raised # None
    THEN [ok |-> FALSE, key |-> st.raised[1], dict |-> <<>>]
    ELSE [ok |-> TRUE, key |-> <<>>, dict |-> MdFlush(st)]

RECURSIVE MdScan(_, _)
MdScan(st, lines) ==
    IF lines = <<>> \/ st.raised # None THEN st
    ELSE MdScan(MdLine(st, Head(lines)), Tail(lines))

md_to_json(lines) == MdOutcome(MdScan(MdStart, lines))


-----------------------------------------------------------------------------
(* story.py: Story                                                         *)

\* a path is the sequence of its parts, each a str; what the file system holds
\* at a path: nothing, a text file with its lines, or a directory
NoFile == [exists |-> FALSE, isDir |-> FALSE, lines |-> <<>>]
File(lines) == [exists |-> TRUE, isDir |-> FALSE, lines |-> lines]
Directory == [exists |-> TRUE, isDir |-> TRUE, lines |-> <<>>]

\* Path.is_file(); a path the file system does not mention holds nothing
IsFile(fs, path) == path \in DOMAIN fs /\ fs[path].exists /\ ~fs[path].isDir

IsDir(fs, path) == path \in DOMAIN fs /\ fs[path].exists /\ fs[path].isDir

PathParent(path) == SubSeq(path, 1, Len(path) - 1)

PathName(path) == path[Len(path)]

\* str(path) with the separator of the platform
PathStrSep(path, sep) == Join(path, <<sep>>)

\* str(path) on POSIX
PathStr(path) == PathStrSep(path, "/")

\* decimal digits; "sup2" stands for U+00B2, a character str.isdigit() accepts
\* and int() rejects
AsciiDigits == <<"0", "1", "2", "3", "4", "5", "6", "7", "8", "9">>

IsAsciiDigit(c) == \E i \in 1..Len(AsciiDigits) : AsciiDigits[i] = c

IsDigitChar(c) == IsAsciiDigit(c) \/ c = "sup2"

\* str.isdigit()
IsDigit(s) == s # <<>> /\ \A i \in 1..Len(s) : IsDigitChar(s[i])

\* _is_int_string with the sign test dropped
IsIntStringNoSign(s) == IsDigit(s)

_is_int_string(s) ==
    IF s = <<>> THEN FALSE
    ELSE IF s[1] \in {"+", "-"} THEN IsDigit(Tail(s))
    ELSE IsDigit(s)

DigitVal(c) == (CHOOSE i \in 1..Len(AsciiDigits) : AsciiDigits[i] = c) - 1

RECURSIVE NatOf(_)
NatOf(ds) ==
    IF ds = <<>> THEN 0 ELSE 10 * NatOf(SubSeq(ds, 1, Len(ds) - 1)) + DigitVal(ds[Len(ds)])

\* int(s) raises ValueError unless s is an optionally signed run of decimal digits
IntParses(s) ==
    LET ds == IF s # <<>> /\ s[1] \in {"+", "-"} THEN Tail(s) ELSE s
    IN  ds # <<>> /\ \A i \in 1..Len(ds) : IsAsciiDigit(ds[i])

IntOf(s) ==
    IF s[1] = "-" THEN 0 - NatOf(Tail(s))
    ELSE IF s[1] = "+" THEN NatOf(Tail(s))
    ELSE NatOf(s)

RECURSIVE NatToStr(_)
NatToStr(n) ==
    IF n < 10 THEN <<AsciiDigits[n + 1]>>
    ELSE NatToStr(n \div 10) \o <<AsciiDigits[(n % 10) + 1]>>

\* str(n)
IntToStr(n) == IF n < 0 THEN <<"-">> \o NatToStr(0 - n) ELSE NatToStr(n)

K_title == <<"t", "i", "t", "l", "e">>
K_number == <<"n", "u", "m", "b", "e", "r">>
K_content == <<"c", "o", "n", "t", "e", "n", "t">>

StoryAllowedKeys == {K_title, K_number, K_content}

\* the orders in which Python may iterate a set of strings
Orders(S) == {o \in [1..Cardinality(S) -> S] : \A x \in S : \E i \in DOMAIN o : o[i] = x}

\* [f(x) for x in xs if keep(x)]
SelectMap(xs, keep(_), f(_)) ==
    LET kept == SelectSeq(xs, keep) IN [i \in 1..Len(kept) |-> f(kept[i])]

HasLineBreak(s) == \E i \in 1..Len(s) : s[i] \in {"\n", "\r"}

\* _count_text_length counting every character
CountAllChars(text) == Len(text)

_count_text_length(text) == Cardinality({i \in 1..Len(text) : text[i] \notin {"\n", "\r"}})

\* an error message: its fixed text, the values formatted into it (each a str),
\* and the file paths the callers put in front of it ("{path}: {msg}"),
\* outermost first
Msg(text, args) == [at |-> <<>>, text |-> text, args |-> args]

\* the message passed on without the path
NotPrefixed(path, m) == m

Prefixed(path, m) == [m EXCEPT !.at = <<path>> \o @]

E_NoH1 == Msg("No H1 headers found", <<>>)

Errors(errs) == [kind |-> "errors", errors |-> errs, value |-> <<>>]

Loaded(kind, v) == [kind |-> kind, errors |-> <<>>, value |-> <<v>>]

\* int(number_str) on a string int() rejects
ValueError == [kind |-> "ValueError", errors |-> <<>>, value |-> <<>>]

\* the value bound by `x = ...`: the element of a one-element set
TheOne(S) == CHOOSE x \in S : TRUE

\* Story.load_if_valid(path) after data = md.md_to_json(str(p)); parsed is
\* what md_to_json returned or raised
StoryFromSections(path, parsed, order) ==
    IF ~parsed.ok THEN Errors(<<Msg("Duplicate header: Duplicate key found", <<parsed.key>>)>>)
    ELSE
    LET data       == parsed.dict
        title      == DictGet(data, K_title, <<>>)
        number_raw == DictGet(data, K_number, <<>>)
        content    == DictGet(data, K_content, <<>>)
        IsExtra(k)   == k \notin StoryAllowedKeys
        IsMissing(k) == ~DictHas(data, k)
        Unexpected(k) == Msg("Unexpected header", <<k>>)
        Missing(k)    == Msg("Missing required header", <<k>>)
        checkInt   == DictHas(data, K_number) /\ Strip(number_raw) # <<>>
        number_str == Strip(number_raw)
        errors ==
            (IF data = <<>> THEN <<E_NoH1>> ELSE <<>>)
            \o SelectMap(DictKeys(data), IsExtra, Unexpected)
            \o SelectMap(order, IsMissing, Missing)
            \o (IF DictHas(data, K_title) /\ Strip(title) = <<>>
                THEN <<Msg("must not be empty", <<K_title>>)>> ELSE <<>>)
            \o (IF DictHas(data, K_number) /\ Strip(number_raw) = <<>>
                THEN <<Msg("must not be empty", <<K_number>>)>> ELSE <<>>)
            \o (IF DictHas(data, K_content) /\ Strip(content) = <<>>
                THEN <<Msg("must not be empty", <<K_content>>)>> ELSE <<>>)
            \o (IF DictHas(data, K_title) /\ HasLineBreak(title)
                THEN <<Msg("must be a single line", <<K_title>>)>> ELSE <<>>)
            \o (IF checkInt /\ ~_is_int_string(number_str)
                THEN <<Msg("must be an integer", <<K_number>>)>> ELSE <<>>)
    IN  IF checkInt /\ _is_int_string(number_str) /\ ~IntParses(number_str)
        THEN ValueError
        ELSE IF errors # <<>> THEN Errors(errors)
        ELSE Loaded("Story",
                    [path    |-> path,
                     title   |-> Strip(title),
                     number  |-> IntOf(number_str),
                     content |-> content,
                     length  |-> _count_text_length(content)])

\* Story.load_if_valid(path) with the file system fs; order is the order in
\* which `for key in allowed_keys` visits the set
StoryLoadIfValid(path, fs, order) ==
    IF ~IsFile(fs, path) THEN Errors(<<Msg("Story file not found", <<PathStr(path)>>)>>)
    ELSE TheOne({StoryFromSections(path, parsed, order) :
                    parsed \in {md_to_json(fs[path].lines)}})

\* hashlib.sha256(base).hexdigest(), idealised: a line-break-free string that
\* determines base
Sha256Hex(base) == <<"sha256:">> \o [i \in 1..Len(base) |-> "h" \o base[i]]

\* Story.hash with the source path chained in
StoryHashWithPath(s) ==
    Sha256Hex(PathStr(s.path) \o LineBreak \o s.title \o LineBreak
              \o IntToStr(s.number) \o LineBreak \o s.content)

\* Story.hash()
StoryHash(s) ==
    Sha256Hex(s.title \o LineBreak \o IntToStr(s.number) \o LineBreak \o s.content)

-----------------------------------------------------------------------------
(* Ordering of Python strings and sorted()                                 *)

\* the characters of the model in code point order
CodePointOrder ==
    <<"\t", "\n", "\r", " ", "#", "(", ")", "+", "-", ".", "/",
      "0", "1", "2", "3", "4", "5", "6", "7", "8", "9", ":",
      "A", "B", "C", "T", "U", "[", "\\", "]", "_",
      "a", "b", "c", "d", "e", "f", "g", "h", "i", "j", "k", "l", "m", "n", "o",
      "p", "q", "r", "s", "t", "u", "v", "w", "x", "y", "z", "sup2">>

Ord(c) == CHOOSE i \in 1..Len(CodePointOrder) : CodePointOrder[i] = c

\* a < b for two str
RECURSIVE StrLess(_, _)
StrLess(a, b) ==
    IF b = <<>> THEN FALSE
    ELSE IF a = <<>> THEN TRUE
    ELSE IF Head(a) = Head(b) THEN StrLess(Tail(a), Tail(b))
    ELSE Ord(Head(a)) < Ord(Head(b))

\* sorted(xs, key=...) where Less(x, y) compares the keys: stable
SortedBy(xs, Less(_, _)) ==
    LET n == Len(xs)
        pos(i) == Cardinality({j \in 1..n : Less(xs[j], xs[i])
                                            \/ (~Less(xs[i], xs[j]) /\ j < i)}) + 1
    IN  [p \in 1..n |-> xs[CHOOSE i \in 1..n : pos(i) = p]]

-----------------------------------------------------------------------------
(* novel.py: Novel                                                         *)

K_tags == <<"t", "a", "g", "s">>
K_status == <<"s", "t", "a", "t", "u", "s">>
K_outline == <<"o", "u", "t", "l", "i", "n", "e">>
K_external_links == <<"e", "x", "t", "e", "r", "n", "a", "l", " ", "l", "i", "n", "k", "s">>
K_chapters == <<"c", "h", "a", "p", "t", "e", "r", "s">>

NovelAllowed == {K_title, K_tags, K_status, K_outline, K_external_links, K_chapters}
NovelRequired == {K_title, K_tags, K_status, K_outline}

\* the three status literals, each one token of the model
S_Ongoing == <<"rensai-chu">>
S_Completed == <<"kanketsu-zumi">>
S_Stopped == <<"koshin-teishi">>
VALID_STATUS == {S_Ongoing, S_Completed, S_Stopped}

IndexName == <<"i", "n", "d", "e", "x", ".", "m", "d">>

\* str.splitlines() for text whose only line boundary is "\n"
RECURSIVE SplitLines(_)
SplitLines(s) ==
    IF s = <<>> THEN <<>>
    ELSE IF \E i \in 1..Len(s) : s[i] = "\n"
         THEN LET i == CHOOSE k \in 1..Len(s) : s[k] = "\n" /\ \A m \in 1..(k - 1) : s[m] # "\n"
              IN  <<SubSeq(s, 1, i - 1)>> \o SplitLines(SubSeq(s, i + 1, Len(s)))
         ELSE <<s>>

IsNonBlank(l) == Strip(l) # <<>>

\* [line.strip() for line in value.strip().splitlines() if line.strip()]
StrippedLines(value) ==
    LET ls == SelectSeq(SplitLines(Strip(value)), IsNonBlank)
    IN  [i \in 1..Len(ls) |-> Strip(ls[i])]

Contains(s, sub) == \E i \in 0..(Len(s) - Len(sub)) : SubSeq(s, i + 1, i + Len(sub)) = sub

BulletPrefix == <<"-", " ">>

\* LinkLinesError with `"[" in inner` for `inner.startswith("[")`
RECURSIVE LinkLinesContains(_)
LinkLinesContains(lines) ==
    IF lines = <<>> THEN <<>>
    ELSE LET l    == Head(lines)
             item == Strip(DropPrefix(l, 2))
         IN  IF ~StartsWith(l, BulletPrefix)
             THEN <<Msg("external links must be a Markdown list", <<>>)>>
             ELSE IF ~(Contains(item, <<"[">>) /\ Contains(item, <<"]", "(">>)
                       /\ EndsWith(item, <<")">>))
             THEN <<Msg("Each external links item must contain a Markdown link", <<>>)>>
             ELSE LinkLinesContains(Tail(lines))

\* the loop over the lines of `external links`: the first error, if any
RECURSIVE LinkLinesError(_)
LinkLinesError(lines) ==
    IF lines = <<>> THEN <<>>
    ELSE LET l    == Head(lines)
             item == Strip(DropPrefix(l, 2))
         IN  IF ~StartsWith(l, BulletPrefix)
             THEN <<Msg("external links must be a Markdown list", <<>>)>>
             ELSE IF ~(StartsWith(item, <<"[">>) /\ Contains(item, <<"]", "(">>)
                       /\ EndsWith(item, <<")">>))
             THEN <<Msg("Each external links item must contain a Markdown link", <<>>)>>
             ELSE LinkLinesError(Tail(lines))

\* the loop over the lines of `chapters`: tmp (insertion-ordered), the first
\* error if any, and whether int(v) raised
RECURSIVE ChapterLines(_, _)
ChapterLines(lines, tmp) ==
    IF lines = <<>> THEN [tmp |-> tmp, error |-> <<>>, fault |-> FALSE]
    ELSE
    LET l      == Head(lines)
        hasCol == \E i \in 1..Len(l) : l[i] = ":"
        c      == CHOOSE i \in 1..Len(l) : l[i] = ":" /\ \A m \in 1..(i - 1) : l[m] # ":"
        k      == Strip(SubSeq(l, 1, c - 1))
        v      == Strip(SubSeq(l, c + 1, Len(l)))
        Fail(text) == [tmp |-> <<>>, error |-> <<Msg(text, <<>>)>>, fault |-> FALSE]
    IN  IF ~hasCol THEN Fail("chapters must be in title: number format")
        ELSE IF k = <<>> \/ v = <<>> THEN Fail("chapters must be valid key: value pairs")
        ELSE IF DictHas(tmp, k) THEN Fail("chapters titles must be unique")
        ELSE IF ~_is_int_string(v) THEN Fail("chapters values must be integers")
        ELSE IF ~IntParses(v) THEN [tmp |-> <<>>, error |-> <<>>, fault |-> TRUE]
        ELSE IF \E i \in 1..Len(tmp) : tmp[i][2] = IntOf(v)
             THEN Fail("chapters numbers must be unique")
        ELSE ChapterLines(Tail(lines), Append(tmp, <<k, IntOf(v)>>))

ChapterLess(a, b) == a[2] < b[2]

\* dict(sorted(tmp.items(), key=lambda kv: kv[1])) left in input order
ChaptersUnsorted(tmp) == tmp

\* dict(sorted(tmp.items(), key=lambda kv: kv[1]))
SortChapters(tmp) == SortedBy(tmp, ChapterLess)

\* _find_chapter_for_number testing number < boundary
FindChapterStrict(number, bounds) ==
    IF \E i \in 1..Len(bounds) : number < bounds[i][2]
    THEN Some(bounds[CHOOSE i \in 1..Len(bounds) :
                  /\ number < bounds[i][2]
                  /\ \A j \in 1..(i - 1) : ~(number < bounds[j][2])][1])
    ELSE None

\* _find_chapter_for_number: the title of the first pair, in list order, whose
\* boundary is >= number, or None
_find_chapter_for_number(number, bounds) ==
    IF \E i \in 1..Len(bounds) : number <= bounds[i][2]
    THEN Some(bounds[CHOOSE i \in 1..Len(bounds) :
                  /\ number <= bounds[i][2]
                  /\ \A j \in 1..(i - 1) : ~(number <= bounds[j][2])][1])
    ELSE None

RECURSIVE Flatten(_)
Flatten(seqs) == IF seqs = <<>> THEN <<>> ELSE Head(seqs) \o Flatten(Tail(seqs))

\* Path.suffix of a file name
Suffix(name) ==
    LET dots == {i \in 2..Len(name) : name[i] = "."}
    IN  IF dots = {} THEN <<>>
        ELSE SubSeq(name, CHOOSE i \in dots : \A j \in dots : j <= i, Len(name))

IsStoryFile(fs, f) ==
    /\ IsFile(fs, f)
    /\ Suffix(PathName(f)) = <<".", "m", "d">>
    /\ PathName(f) # IndexName
    /\ ~StartsWith(PathName(f), <<"_">>)

PathLess(a, b) == StrLess(PathName(a), PathName(b))

\* a set as a sequence, in some order
SetToSeq(S) == CHOOSE q \in [1..Cardinality(S) -> S] : \A x \in S : \E i \in DOMAIN q : q[i] = x

\* sorted(f for f in novel_dir.iterdir() if ...)
StoryFiles(fs, novel_dir) ==
    SortedBy(SetToSeq({f \in DOMAIN fs : PathParent(f) = novel_dir /\ IsStoryFile(fs, f)}),
             PathLess)

\* the validation of index.md's sections, novel.py lines 50-195
NovelHeader(data, order) ==
    LET title_val  == DictGet(data, K_title, <<>>)
        tags_val   == DictGet(data, K_tags, <<>>)
        status_val == DictGet(data, K_status, <<>>)
        IsExtra(k)    == k \notin NovelAllowed
        IsMissing(k)  == ~DictHas(data, k)
        IsBlank(kv)   == Strip(kv[2]) = <<>>
        Unexpected(k) == Msg("Unexpected header", <<k>>)
        Missing(k)    == Msg("Missing required header", <<k>>)
        Empty(kv)     == Msg("must not be empty", <<kv[1]>>)
        NotBullet(l)  == ~StartsWith(l, BulletPrefix)
        tag_lines  == StrippedLines(tags_val)
        e1 ==
            (IF data = <<>> THEN <<E_NoH1>> ELSE <<>>)
            \o SelectMap(DictKeys(data), IsExtra, Unexpected)
            \o SelectMap(order, IsMissing, Missing)
            \o SelectMap(data, IsBlank, Empty)
            \o (IF DictHas(data, K_title) /\ HasLineBreak(title_val)
                THEN <<Msg("must be a single line", <<K_title>>)>> ELSE <<>>)
            \o (IF DictHas(data, K_tags)
                   /\ (tag_lines = <<>> \/ SelectSeq(tag_lines, NotBullet) # <<>>)
                THEN <<Msg("tags must be a Markdown list with at least one item", <<>>)>>
                ELSE <<>>)
            \o (IF DictHas(data, K_status) /\ Strip(status_val) \notin VALID_STATUS
                THEN <<Msg("status must be one of the three literals", <<>>)>> ELSE <<>>)
        hasLinks   == DictHas(data, K_external_links)
        links_val  == DictGet(data, K_external_links, <<>>)
        link_lines == StrippedLines(links_val)
        e2 ==
            e1 \o (IF ~hasLinks THEN <<>>
                   ELSE IF link_lines = <<>>
                   THEN <<Msg("external links must be a Markdown list with at least one item",
                              <<>>)>>
                   ELSE LinkLinesError(link_lines))
        hasCh      == DictHas(data, K_chapters)
        ch_lines   == StrippedLines(DictGet(data, K_chapters, <<>>))
        cl         == IF hasCh /\ ch_lines # <<>> THEN ChapterLines(ch_lines, <<>>)
                      ELSE [tmp |-> <<>>, error |-> <<>>, fault |-> FALSE]
        e3 ==
            e2 \o (IF hasCh /\ ch_lines = <<>>
                   THEN <<Msg("chapters must not be empty if provided", <<>>)>>
                   ELSE cl.error)
        chOk       == hasCh /\ cl.tmp # <<>> /\ e3 = <<>>
    IN  [errors             |-> e3,
         fault              |-> cl.fault,
         title_val          |-> title_val,
         tags_val           |-> tags_val,
         status_val         |-> status_val,
         outline            |-> DictGet(data, K_outline, <<>>),
         external_links     |-> IF hasLinks /\ e2 = <<>> THEN Some(links_val) ELSE None,
         has_external_links |-> hasLinks /\ e2 = <<>>,
         chapters           |-> IF chOk THEN Some(SortChapters(cl.tmp)) ELSE None,
         has_chapters       |-> chOk]

RECURSIVE SumLengths(_)
SumLengths(stories) ==
    IF stories = <<>> THEN 0 ELSE Head(stories).length + SumLengths(Tail(stories))

StoryNumberLess(s, t) == s.number < t.number

\* sorted(stories, key=lambda s: s.number) left in file order
StoriesUnsorted(stories) == stories

\* sorted(stories, key=lambda s: s.number)
SortStories(stories) == SortedBy(stories, StoryNumberLess)

\* for num, cnt in Counter(nums).items(): if cnt > 1, reporting every
\* occurrence after the first
DuplicateNumbersPerOccurrence(nums) ==
    LET idx == [i \in 1..Len(nums) |-> i]
        Repeats(i) == \E j \in 1..(i - 1) : nums[j] = nums[i]
    IN  [k \in 1..Len(SelectSeq(idx, Repeats)) |-> nums[SelectSeq(idx, Repeats)[k]]]

\* the numbers Counter(nums) counts more than once, in order of first occurrence
DuplicateNumbers(nums) ==
    LET idx == [i \in 1..Len(nums) |-> i]
        FirstOfSeveral(i) ==
            /\ \A j \in 1..(i - 1) : nums[j] # nums[i]
            /\ \E j \in (i + 1)..Len(nums) : nums[j] = nums[i]
    IN  [k \in 1..Len(SelectSeq(idx, FirstOfSeveral)) |-> nums[SelectSeq(idx, FirstOfSeveral)[k]]]

\* Novel.load_if_valid(path) from `story_files = sorted(...)` on: h is the
\* outcome of the header rules, files the story files, results what
\* Story.load_if_valid returned for each
NovelFromStories(path, h, files, results) ==
    LET IsStory(r)  == r.kind = "Story"
        IsFault(r)  == r.kind = "ValueError"
        idx         == [i \in 1..Len(files) |-> i]
        Failed(i)   == results[i].kind = "errors"
        FileErrors(i) ==
            [k \in 1..Len(results[i].errors) |->
                Prefixed(PathStr(files[i]), results[i].errors[k])]
        ValueOf(r)  == r.value[1]
        stories     == SelectMap(results, IsStory, ValueOf)
        nums        == [i \in 1..Len(stories) |-> stories[i].number]
        DupMsg(n)   == Msg("Duplicate story number found", <<IntToStr(n)>>)
        NoChapter(st) == _find_chapter_for_number(st.number, h.chapters[1]) = None
        NoChapterMsg(st) ==
            Msg("does not belong to any chapter", <<PathName(st.path), IntToStr(st.number)>>)
        TrueOf(x)   == TRUE
        errors ==
            Flatten(SelectMap(idx, Failed, FileErrors))
            \o SelectMap(DuplicateNumbers(nums), TrueOf, DupMsg)
            \o (IF h.has_chapters /\ h.chapters # None /\ h.chapters[1] # <<>>
                THEN SelectMap(stories, NoChapter, NoChapterMsg) ELSE <<>>)
        stories_sorted == SortStories(stories)
    IN  IF SelectSeq(results, IsFault) # <<>> THEN ValueError
        ELSE IF errors # <<>> THEN Errors(errors)
        ELSE Loaded("Novel",
                    [path               |-> path,
                     title              |-> Strip(h.title_val),
                     tags               |-> h.tags_val,
                     status             |-> Strip(h.status_val),
                     outline            |-> h.outline,
                     external_links     |-> h.external_links,
                     chapters           |-> h.chapters,
                     has_external_links |-> h.has_external_links,
                     has_chapters       |-> h.has_chapters,
                     stories            |-> stories_sorted,
                     num_stories        |-> Len(stories_sorted),
                     total_length       |-> SumLengths(stories_sorted)])

\* Story.load_if_valid(sf) for sf in story_files
StoryResults(files, fs, orderS) ==
    [i \in 1..Len(files) |-> StoryLoadIfValid(files[i], fs, orderS)]

\* Novel.load_if_valid(path) after the header rules
NovelFromHeader(path, fs, h, orderS) ==
    IF h.fault THEN ValueError
    ELSE IF h.errors # <<>> THEN Errors(h.errors)
    ELSE TheOne({NovelFromStories(path, h, StoryFiles(fs, PathParent(path)), results) :
                    results \in {StoryResults(StoryFiles(fs, PathParent(path)), fs, orderS)}})

\* Novel.load_if_valid(path) after data = md.md_to_json(str(p))
NovelFromSections(path, fs, parsed, orderN, orderS) ==
    IF ~parsed.ok THEN Errors(<<Msg("Duplicate header: Duplicate key found", <<parsed.key>>)>>)
    ELSE TheOne({NovelFromHeader(path, fs, h, orderS) : h \in {NovelHeader(parsed.dict, orderN)}})

\* Novel.load_if_valid(path) with the file system fs; orderN and orderS are the
\* orders in which the sets `required` and `allowed_keys` are iterated
NovelLoadIfValid(path, fs, orderN, orderS) ==
    IF ~IsFile(fs, path) THEN Errors(<<Msg("Novel index file not found", <<PathStr(path)>>)>>)
    ELSE TheOne({NovelFromSections(path, fs, parsed, orderN, orderS) :
                    parsed \in {md_to_json(fs[path].lines)}})

\* each chapter with every story up to its boundary
StoriesUpToBoundary(novel) ==
    LET bounds == novel.chapters[1]
    IN  [i \in 1..Len(bounds) |->
            LET UpTo(st) == st.number <= bounds[i][2]
            IN  <<bounds[i][1], SelectSeq(novel.stories, UpTo)>>]

\* Novel.get_stories_ordered() of a Novel with chapters: the chapter titles in
\* the order of self.chapters, each with the tuple of its stories
StoriesByChapter(novel) ==
    LET bounds == novel.chapters[1]
        In(t, st) == _find_chapter_for_number(st.number, bounds) = Some(t)
    IN  [i \in 1..Len(bounds) |->
            LET InThis(st) == In(bounds[i][1], st)
            IN  <<bounds[i][1], SelectSeq(novel.stories, InThis)>>]

\* Novel.get_stories_ordered()
get_stories_ordered(novel) ==
    IF ~novel.has_chapters \/ novel.chapters = None \/ novel.chapters[1] = <<>>
    THEN [grouped |-> FALSE, stories |-> novel.stories, chapters |-> <<>>]
    ELSE [grouped |-> TRUE, stories |-> <<>>, chapters |-> StoriesByChapter(novel)]

-----------------------------------------------------------------------------
(* novel.py: Novel.hash; toppage.py: TopPage                               *)

\* repr(self.chapters), as in {'A': 1, 'B': 10}; "apos" stands for the
\* apostrophe
ReprChapters(chapters) ==
    <<"{">>
    \o Join([i \in 1..Len(chapters) |->
                <<"apos">> \o chapters[i][1] \o <<"apos", ":", " ">> \o IntToStr(chapters[i][2])],
            <<",", " ">>)
    \o <<"}">>

\* Novel.hash(): base = "\n".join(parts)
NovelHashBase(n) ==
    LET parts == <<n.title, n.tags, n.status, n.outline,
                   IF n.external_links = None THEN <<>> ELSE n.external_links[1],
                   IF n.chapters # None /\ n.chapters[1] # <<>>
                   THEN ReprChapters(n.chapters[1]) ELSE <<>>>>
                 \o [i \in 1..Len(n.stories) |-> StoryHash(n.stories[i])]
    IN  Join(parts, LineBreak)

\* Novel.hash()
NovelHash(n) == Sha256Hex(NovelHashBase(n))

\* _STATUS_ORDER.get(n.status, 999)
StatusOrder(status) ==
    IF status = S_Ongoing THEN 0
    ELSE IF status = S_Completed THEN 1
    ELSE IF status = S_Stopped THEN 2
    ELSE 999

Max(S) == CHOOSE x \in S : \A y \in S : y <= x

\* novel_last_updated(n): the newest mtime of index.md and the story files
novel_last_updated(n, mtime) ==
    Max({mtime[n.path]} \cup {mtime[n.stories[i].path] : i \in 1..Len(n.stories)})

\* sort_key without the status: (-updated, title)
SortKeyNoStatus(a, b, mtime) ==
    LET ua == novel_last_updated(a, mtime)
        ub == novel_last_updated(b, mtime)
    IN  \/ ua > ub
        \/ ua = ub /\ StrLess(a.title, b.title)

\* sort_key(a) < sort_key(b) for (-updated, status_order, title)
SortKeyLess(a, b, mtime) ==
    LET ua == novel_last_updated(a, mtime)
        ub == novel_last_updated(b, mtime)
        sa == StatusOrder(a.status)
        sb == StatusOrder(b.status)
    IN  \/ ua > ub
        \/ ua = ub /\ sa < sb
        \/ ua = ub /\ sa = sb /\ StrLess(a.title, b.title)

\* the fixed site title and URL, each written as one token
SiteTitle == <<"MoguraNovel">>
SiteUrl == <<"https://www.mogura-novel.com/">>

\* sorted(private_dir.iterdir())
Children(fs, dir) ==
    SortedBy(SetToSeq({f \in DOMAIN fs : PathParent(f) = dir /\ fs[f].exists}), PathLess)

\* TopPage.load_if_valid(path) before the directory scan: the errors it
\* returns at once
SelfIntroErrors(path, fs) ==
    IF ~IsFile(fs, path) THEN <<Msg("Self intro file not found", <<PathStr(path)>>)>>
    ELSE IF Strip(Join(fs[path].lines, LineBreak)) = <<>>
    THEN <<Msg("Self intro must not be empty", <<>>)>>
    ELSE <<>>

\* the body of `for child in sorted(private_dir.iterdir())` for one child:
\* skipped, or what Novel.load_if_valid(child / "index.md") returned
ScanChild(child, fs, orderN, orderS) ==
    IF ~IsDir(fs, child) \/ ~IsFile(fs, child \o <<IndexName>>) THEN None
    ELSE Some(NovelLoadIfValid(child \o <<IndexName>>, fs, orderN, orderS))

\* the errors of a Novel as TopPage reports them: f"{index_md}: {msg}"
NovelErrors(child, errors) ==
    [k \in 1..Len(errors) |-> Prefixed(PathStr(child \o <<IndexName>>), errors[k])]

\* TopPage with novel_directories left in the order of the scan
TopPageDirsAsScanned(path, fs, mtime, pairs) ==
    LET NovelLess(x, y) == SortKeyLess(x, y, mtime)
    IN  [path              |-> path,
         title             |-> SiteTitle,
         url               |-> SiteUrl,
         self_intro        |-> Strip(Join(fs[path].lines, LineBreak)),
         novels            |-> SortedBy([i \in 1..Len(pairs) |-> pairs[i].novel], NovelLess),
         novel_directories |-> [i \in 1..Len(pairs) |-> pairs[i].dir]]

\* TopPage.load_if_valid(path) after the scan accepted pairs, each a Novel
\* with its directory: novels_sorted = sorted(novels, key=sort_key), and
\* novel_dirs_sorted from a second sort, of zip(novels, novel_dirs) by the
\* sort_key of the Novel
TopPageOf(path, fs, mtime, pairs) ==
    LET NovelLess(x, y) == SortKeyLess(x, y, mtime)
        PairLess(x, y)  == SortKeyLess(x.novel, y.novel, mtime)
        novels_sorted     == SortedBy([i \in 1..Len(pairs) |-> pairs[i].novel], NovelLess)
        novel_dirs_sorted == SortedBy(pairs, PairLess)
    IN  [path              |-> path,
         title             |-> SiteTitle,
         url               |-> SiteUrl,
         self_intro        |-> Strip(Join(fs[path].lines, LineBreak)),
         novels            |-> novels_sorted,
         novel_directories |-> [i \in 1..Len(pairs) |-> novel_dirs_sorted[i].dir]]

\* TopPage.hash() chaining the Novel hashes in the order of their paths
TopPageHashByPath(tp) ==
    LET NovelPathLess(a, b) == StrLess(PathStr(a.path), PathStr(b.path))
        novels == SortedBy(tp.novels, NovelPathLess)
    IN  Sha256Hex(Join(<<tp.title, tp.self_intro>>
                       \o [i \in 1..Len(novels) |-> NovelHash(novels[i])], LineBreak))

\* TopPage.hash()
TopPageHash(tp) ==
    Sha256Hex(Join(<<tp.title, tp.self_intro>>
                   \o [i \in 1..Len(tp.novels) |-> NovelHash(tp.novels[i])], LineBreak))

-----------------------------------------------------------------------------
(* publish.py: the update history                                          *)

\* s.replace(old, new) for one-character old and new
Replace(s, old, new) == [i \in 1..Len(s) |-> IF s[i] = old THEN new ELSE s[i]]

\* d1 == d2 for two dicts: the same keys with the same values, in any order
DictEq(d1, d2) == {d1[i] : i \in 1..Len(d1)} = {d2[i] : i \in 1..Len(d2)}

\* load_history(path): rows that do not have three fields are skipped, a
\* later row of the same filename replaces the earlier one
RECURSIVE LoadRowsKeepsFirst(_, _)
\* the loop with the first row of a filename kept
LoadRowsKeepsFirst(rows, hist) ==
    IF rows = <<>> THEN hist
    ELSE LET row == Head(rows) IN
         IF Len(row) # 3 \/ DictHas(hist, row[1]) THEN LoadRowsKeepsFirst(Tail(rows), hist)
         ELSE LoadRowsKeepsFirst(Tail(rows), DictSet(hist, row[1], <<row[2], row[3]>>))

RECURSIVE LoadRows(_, _)
LoadRows(rows, hist) ==
    IF rows = <<>> THEN hist
    ELSE LET row == Head(rows) IN
         IF Len(row) # 3 THEN LoadRows(Tail(rows), hist)
         ELSE LoadRows(Tail(rows), DictSet(hist, row[1], <<row[2], row[3]>>))

load_history(file) == IF ~file.exists \/ file.isDir THEN <<>> ELSE LoadRows(file.lines, <<>>)

HistoryKeyLess(x, y) == StrLess(x[1], y[1])

\* save_history(path, history): one row per entry, sorted by filename
save_history(history) ==
    LET items == SortedBy(history, HistoryKeyLess)
    IN  File([i \in 1..Len(items) |-> <<items[i][1], items[i][2][1], items[i][2][2]>>])

\* str(key).replace("\\", "/")
key_str(key) == Replace(PathStr(key), "\\", "/")

\* update_history_entry that stores the key as str(key) gives it
UpdateNoNormalise(history, key, new_hash, now) ==
    LET old == DictGet(history, PathStr(key), None)
    IN  IF old = None \/ old[1] # new_hash
        THEN [history |-> DictSet(history, PathStr(key), <<new_hash, now>>), ret |-> now]
        ELSE [history |-> history, ret |-> old[2]]

\* update_history_entry that stamps the entry on every call
UpdateAlways(history, key, new_hash, now) ==
    [history |-> DictSet(history, key_str(key), <<new_hash, now>>), ret |-> now]

\* update_history_entry that stores the new hash and keeps the old timestamp
UpdateKeepsTimestamp(history, key, new_hash, now) ==
    LET old == DictGet(history, key_str(key), None)
    IN  IF old = None
        THEN [history |-> DictSet(history, key_str(key), <<new_hash, now>>), ret |-> now]
        ELSE [history |-> DictSet(history, key_str(key), <<new_hash, old[2]>>), ret |-> old[2]]

\* update_history_entry that starts the history anew on a changed hash
UpdateStartsAnew(history, key, new_hash, now) ==
    LET old == DictGet(history, key_str(key), None)
    IN  IF old = None \/ old[1] # new_hash
        THEN [history |-> <<<<key_str(key), <<new_hash, now>>>>>>, ret |-> now]
        ELSE [history |-> history, ret |-> old[2]]

\* update_history_entry(history, key, new_hash, now_iso): the history after
\* the call and the returned timestamp
update_history_entry(history, key, new_hash, now) ==
    LET old == DictGet(history, key_str(key), None)
    IN  IF old = None \/ old[1] # new_hash
        THEN [history |-> DictSet(history, key_str(key), <<new_hash, now>>), ret |-> now]
        ELSE [history |-> history, ret |-> old[2]]

-----------------------------------------------------------------------------
(* publish.py: build_top_page                                              *)

Min(a, b) == IF a <= b THEN a ELSE b

\* the update_history_entry calls of one novel in build_top_page, as
\* <<key, new_hash>>: the novel, then its stories in the order of
\* novel.stories
NovelEntities(novel) ==
    << <<novel.path, NovelHash(novel)>> >>
    \o [j \in 1..Len(novel.stories) |-> <<novel.stories[j].path, StoryHash(novel.stories[j])>>]

\* the update_history_entry calls of build_top_page in order: the
\* about-document, then each novel of zip(tp.novels, tp.novel_directories)
Entities(tp) ==
    << <<tp.path, TopPageHash(tp)>> >>
    \o Flatten([i \in 1..Min(Len(tp.novels), Len(tp.novel_directories)) |->
                    NovelEntities(tp.novels[i])])

\* list(d.values())
DictValues(d) == [i \in 1..Len(d) |-> d[i][2]]

\* min(all_ts)
MinStr(xs) == CHOOSE x \in {xs[i] : i \in 1..Len(xs)} : \A i \in 1..Len(xs) : ~StrLess(xs[i], x)

\* max(all_ts), the items being str
MaxStr(xs) == CHOOSE x \in {xs[i] : i \in 1..Len(xs)} : \A i \in 1..Len(xs) : ~StrLess(x, xs[i])

\* story_updated_iso after the loop over novel.stories: rets holds what
\* update_history_entry returned for the stories, in their order
RECURSIVE StoryUpdatedIso(_, _, _)
StoryUpdatedIso(stories, rets, d) ==
    IF stories = <<>> THEN d
    ELSE StoryUpdatedIso(Tail(stories), Tail(rets), DictSet(d, Head(stories).number, Head(rets)))

PublicDir == << <<"p", "u", "b", "l", "i", "c">> >>

\* the NovelContext build_top_page makes of a novel; rets holds what
\* update_history_entry returned for the novel and then for its stories
NovelContext(novel, ndir, rets) ==
    LET story_updated_iso == StoryUpdatedIso(novel.stories, Tail(rets), <<>>)
        all_ts == <<Head(rets)>> \o DictValues(story_updated_iso)
    IN  [novel             |-> novel,
         private_dir       |-> ndir,
         public_dir        |-> PublicDir \o <<PathName(ndir)>>,
         last_updated_iso  |-> MaxStr(all_ts),
         story_updated_iso |-> story_updated_iso]

\* novel_contexts of build_top_page; rets holds what the calls after the one
\* for the about-document returned
RECURSIVE NovelContexts(_, _, _)
NovelContexts(novels, dirs, rets) ==
    IF novels = <<>> \/ dirs = <<>> THEN <<>>
    ELSE LET k == Len(Head(novels).stories) + 1 IN
         <<NovelContext(Head(novels), Head(dirs), SubSeq(rets, 1, k))>>
         \o NovelContexts(Tail(novels), Tail(dirs), SubSeq(rets, k + 1, Len(rets)))

IndexHtml == <<"i", "n", "d", "e", "x", ".", "h", "t", "m", "l">>

\* the files main() writes under public/ after copy_style: style.css, and
\* for each novel its index.html and one page per story
PagesAfterStyle(contexts) ==
    {PublicDir \o <<<<"c", "s", "s">>, <<"s", "t", "y", "l", "e", ".", "c", "s", "s">>>>}
    \cup {contexts[i].public_dir \o <<IndexHtml>> : i \in 1..Len(contexts)}
    \cup UNION {{contexts[i].public_dir \o <<NatToStr(idx) \o <<".", "h", "t", "m", "l">>>> :
                    idx \in 1..Len(contexts[i].novel.stories)} : i \in 1..Len(contexts)}

-----------------------------------------------------------------------------
(* Inputs of the section parser                                            *)

MaxMdLines == 4

MdLines ==
    { <<"#", " ", "a">>,            \* # a
      <<"#", " ", "b">>,            \* # b
      <<" ", "#", " ", "a", " ">>,  \* indented marker, name padded
      <<"#", "#", " ", "a">>,       \* ## a
      <<"x">>,                      \* text
      <<>>,                         \* blank line
      <<" ", "x">>,                 \* indented text
      <<"#", " ">>,                 \* marker prefix with nothing after it
      <<" ", "#", " ", " ">> }      \* marker prefix between blanks

RECURSIVE SeqsUpTo(_, _)
SeqsUpTo(S, n) ==
    IF n = 0 THEN {<<>>}
    ELSE LET shorter == SeqsUpTo(S, n - 1)
         IN  shorter \cup {Append(s, x) : s \in {t \in shorter : Len(t) = n - 1}, x \in S}

MdDocs == SeqsUpTo(MdLines, MaxMdLines)

MdInit ==
    /\ mdDoc \in MdDocs
    /\ mdPos = 0
    /\ mdSt = MdStart
    /\ mdRet = None

\* for raw_line in f: ... (one line)
MdReadLine ==
    /\ mdRet = None
    /\ mdPos < Len(mdDoc)
    /\ mdSt.raised = None
    /\ mdSt' = MdLine(mdSt, mdDoc[mdPos + 1])
    /\ mdPos' = mdPos + 1
    /\ UNCHANGED <<mdDoc, mdRet>>
    /\ UNCHANGED notMdVars

\* raise JsonKeyDuplicateError
MdRaise ==
    /\ mdRet = None
    /\ mdSt.raised # None
    /\ mdRet' = Some(MdOutcome(mdSt))
    /\ UNCHANGED <<mdDoc, mdPos, mdSt>>
    /\ UNCHANGED notMdVars

\* end of file: flush the last value and return result
MdReturn ==
    /\ mdRet = None
    /\ mdSt.raised = None
    /\ mdPos = Len(mdDoc)
    /\ mdRet' = Some(MdOutcome(mdSt))
    /\ UNCHANGED <<mdDoc, mdPos, mdSt>>
    /\ UNCHANGED notMdVars

MdNext == MdReadLine \/ MdRaise \/ MdReturn

MdIdle == mdDoc = <<>> /\ mdPos = 0 /\ mdSt = MdStart /\ mdRet = None

-----------------------------------------------------------------------------
(* Inputs of the Story validator: two story files                          *)

HeaderLine(k) == H1Prefix \o k

TitleBodies ==
    { << <<"T">> >>, << <<"T", " ">> >>, << <<>> >>, << <<"T">>, <<"U">> >> }

NumberBodies ==
    { << <<"1">> >>, << <<"+", "1">> >>, << <<"-", "2">> >>, << <<"x">> >>,
      << <<"sup2">> >>, << <<" ">> >> }

ContentBodies ==
    { << <<"c">> >>, << <<" ", "c", "\r">>, <<"d", " ">> >>, << <<>> >> }

\* the lines of a section, or nothing when the section is left out
SectionChoices(k, bodies) == {<<>>} \cup {<<HeaderLine(k)>> \o b : b \in bodies}

StoryDocs ==
    { pre \o t \o n \o c \o x :
        pre \in {<<>>, << <<"x">> >>},
        t \in SectionChoices(K_title, TitleBodies),
        n \in SectionChoices(K_number, NumberBodies),
        c \in SectionChoices(K_content, ContentBodies),
        x \in SectionChoices(<<"m">>, {<< <<"x">> >>}) }

\* the second file: valid stories, and no file at all
StoryFilesB ==
    { File(t \o n \o c) :
        t \in {<<HeaderLine(K_title)>> \o b : b \in {<< <<"T">> >>, << <<"T", " ">> >>}},
        n \in {<<HeaderLine(K_number)>> \o b : b \in {<< <<"1">> >>, << <<"+", "1">> >>}},
        c \in {<<HeaderLine(K_content)>> \o b : b \in {<< <<"c">> >>, << <<"c">>, <<"d">> >>}} }
    \cup {NoFile}

StPathA == << <<"n">>, <<"1", ".", "m", "d">> >>
StPathB == << <<"n">>, <<"2", ".", "m", "d">> >>
StoryPaths == {StPathA, StPathB}

StInit ==
    /\ \E a \in StoryDocs, b \in StoryFilesB :
          stFs = [p \in StoryPaths |-> IF p = StPathA THEN File(a) ELSE b]
    /\ stRet = [p \in StoryPaths |-> None]
    /\ stHash = [p \in StoryPaths |-> None]

\* result = Story.load_if_valid(p)
StLoad(p) ==
    /\ stRet[p] = None
    /\ \E order \in Orders(StoryAllowedKeys) :
          stRet' = [stRet EXCEPT ![p] = Some(StoryLoadIfValid(p, stFs, order))]
    /\ UNCHANGED <<stFs, stHash>>
    /\ UNCHANGED notStVars

\* result.hash()
StHashCall(p) ==
    /\ stRet[p] # None
    /\ stRet[p][1].kind = "Story"
    /\ stHash[p] = None
    /\ stHash' = [stHash EXCEPT ![p] = Some(StoryHash(stRet[p][1].value[1]))]
    /\ UNCHANGED <<stFs, stRet>>
    /\ UNCHANGED notStVars

StNext == \E p \in StoryPaths : StLoad(p) \/ StHashCall(p)

StIdle == stFs = <<>> /\ stRet = <<>> /\ stHash = <<>>

-----------------------------------------------------------------------------
(* Inputs of the Novel validator: one novel directory                      *)

MaxStoryFiles == 3

NvDir == << <<"n">> >>

NvIndexPath == NvDir \o <<IndexName>>

\* the story files 1.md, 2.md, ... and a draft, _1.md, which is not a story
NvStoryPath(i) == NvDir \o << IntToStr(i) \o <<".", "m", "d">> >>

NvStoryPaths == {NvStoryPath(i) : i \in 1..MaxStoryFiles}

NvDraftPath == NvDir \o << <<"_", "1", ".", "m", "d">> >>

StoryLines(title, number, content) ==
    <<HeaderLine(K_title), title, HeaderLine(K_number), number, HeaderLine(K_content), content>>

NvNumberTexts == { <<"1">>, <<"5">>, <<"1", "0">>, <<"2", "1">> }

NvStoryChoices ==
    {NoFile, File(<< <<"x">> >>)}
    \cup {File(StoryLines(<<"T">>, n, <<"c">>)) : n \in NvNumberTexts}

IndexBase(status) ==
    <<HeaderLine(K_title), <<"T">>, HeaderLine(K_tags), <<"-", " ", "g">>,
      HeaderLine(K_status), status, HeaderLine(K_outline), <<"o">>>>

ChapterLine(t, n) == <<t, ":", " ">> \o n

LinkAB == <<"-", " ", "[", "a", "]", "(", "b", ")">>

\* bodies of the external links section: a link followed by a blank line,
\* an item with text before the bracket, an indented item followed by one
\* without "](", a line without bullet, and no line at all
LinkBodies ==
    { <<LinkAB, <<>>>>,
      << <<"-", " ", "x", "[", "a", "]", "(", "b", ")">> >>,
      << <<" ", "-", " ", " ", "[", "a", "]", "(", "b", ")", " ">>,
         <<"-", " ", "[", "a", "]", "b", ")">> >>,
      << <<"[", "a", "]", "(", "b", ")">> >>,
      <<>> }

NvIndexDocs ==
    { IndexBase(S_Ongoing),
      IndexBase(S_Ongoing) \o <<HeaderLine(K_chapters), ChapterLine("A", <<"1">>),
                                ChapterLine("B", <<"1", "0">>), ChapterLine("C", <<"2", "0">>)>>,
      IndexBase(S_Ongoing) \o <<HeaderLine(K_chapters), ChapterLine("C", <<"2", "0">>),
                                ChapterLine("A", <<"1">>), ChapterLine("B", <<"1", "0">>)>>,
      IndexBase(<<"x">>) \o <<HeaderLine(K_chapters), ChapterLine("A", <<"1">>)>>,
      <<HeaderLine(K_status), S_Ongoing, HeaderLine(K_outline), <<"o">>>>,
      << <<"x">> >> }
    \cup {IndexBase(S_Ongoing) \o <<HeaderLine(K_external_links)>> \o body : body \in LinkBodies}
    \cup {IndexBase(S_Ongoing) \o <<LinkAB>>}

\* the iteration orders of the two sets tried for one process
NvOrders ==
    { << <<K_title, K_tags, K_status, K_outline>>, <<K_title, K_number, K_content>> >>,
      << <<K_outline, K_status, K_tags, K_title>>, <<K_content, K_number, K_title>> >> }

NvInit ==
    /\ \E ix \in NvIndexDocs, st \in [NvStoryPaths -> NvStoryChoices] :
          nvFs = [p \in {NvDir, NvIndexPath, NvDraftPath} \cup NvStoryPaths |->
                    IF p = NvDir THEN Directory
                    ELSE IF p = NvIndexPath THEN File(ix)
                    ELSE IF p = NvDraftPath THEN File(StoryLines(<<"T">>, <<"1">>, <<"c">>))
                    ELSE st[p]]
    /\ nvRet = None
    /\ nvView = None
    /\ nvCall = None

\* result = Novel.load_if_valid(index.md)
NvLoad ==
    /\ nvRet = None
    /\ \E o \in NvOrders :
          nvRet' = Some(NovelLoadIfValid(NvIndexPath, nvFs, o[1], o[2]))
    /\ UNCHANGED <<nvFs, nvView, nvCall>>
    /\ UNCHANGED notNvVars

\* result.get_stories_ordered()
NvGetStoriesOrdered ==
    /\ nvRet # None
    /\ nvRet[1].kind = "Novel"
    /\ nvView = None
    /\ nvView' = Some(get_stories_ordered(nvRet[1].value[1]))
    /\ UNCHANGED <<nvFs, nvRet, nvCall>>
    /\ UNCHANGED notNvVars

\* Story.load_if_valid(f) called on a file of the directory
NvStoryLoad(f) ==
    /\ nvCall = None
    /\ \E o \in NvOrders :
          nvCall' = Some([fn |-> "Story.load_if_valid", path |-> f,
                          ret |-> StoryLoadIfValid(f, nvFs, o[2])])
    /\ UNCHANGED <<nvFs, nvRet, nvView>>
    /\ UNCHANGED notNvVars

\* md_to_json(f) called on a file of the directory
NvMdToJson(f) ==
    /\ nvCall = None
    /\ IsFile(nvFs, f)
    /\ nvCall' = Some([fn |-> "md_to_json", path |-> f, ret |-> md_to_json(nvFs[f].lines)])
    /\ UNCHANGED <<nvFs, nvRet, nvView>>
    /\ UNCHANGED notNvVars

NvNext ==
    \/ NvLoad
    \/ NvGetStoriesOrdered
    \/ \E f \in NvStoryPaths \cup {NvIndexPath} : NvStoryLoad(f)
    \/ \E f \in NvStoryPaths \cup {NvIndexPath} : NvMdToJson(f)

NvIdle == nvFs = <<>> /\ nvRet = None /\ nvView = None /\ nvCall = None

-----------------------------------------------------------------------------
(* The history across runs of main()                                       *)

\* the clock is finer than the timestamps main() takes from it
TicksPerSecond == 2

MaxTicks == 5

\* datetime.now(timezone.utc).isoformat(timespec="seconds") at clock value
\* tick: whole seconds in a fixed-width field (the date part is constant)
now_iso(tick) ==
    LET sec == tick \div TicksPerSecond
    IN  <<"T", AsciiDigits[((sec \div 10) % 10) + 1], AsciiDigits[(sec % 10) + 1]>>

\* paths handed to update_history_entry; the first has a backslash in a name
HsPaths == {<<<<"a", "\\", "b">>>>, <<<<"a">>, <<"b">>>>, <<<<"c">>>>}

HsHashes == {<<"h", "1">>, <<"h", "2">>}

\* update_history.csv before the first run: absent, empty, or written by
\* runs of an earlier second, also with rows that do not have three fields
\* and with two rows for the path q of a document that is gone
HsFiles ==
    {NoFile,
     File(<<>>),
     File(<<<<<<"c">>, <<"h", "1">>, now_iso(0)>>, <<<<"a", "/", "b">>>>,
            <<<<"a", "/", "b">>, <<"h", "1">>, now_iso(0)>>, <<>>,
            <<<<"q">>, <<"h", "1">>, now_iso(0)>>,
            <<<<"q">>, <<"h", "2">>, now_iso(0), <<"x">>>>,
            <<<<"q">>, <<"h", "2">>, now_iso(0)>>>>)}

\* main() not running; started is the clock value of the last run, seen the
\* entities build_top_page has been through
MainIdle == [pc |-> "idle", history |-> <<>>, now_iso |-> <<>>, started |-> 0, seen |-> {}]

\* the keys of the entries the calls address
HsKeys == {key_str(p) : p \in HsPaths}

\* the calls for key that wrote the three-field rows of file: the hash of
\* the last one and the now of the last one that changed the hash
CallsBehind(file, key) ==
    LET rows == {file.lines[i] : i \in {j \in 1..Len(file.lines) :
                    Len(file.lines[j]) = 3 /\ file.lines[j][1] = key}}
    IN  IF rows = {} THEN None ELSE Some(<<(CHOOSE row \in rows : TRUE)[2],
                                           (CHOOSE row \in rows : TRUE)[3]>>)

\* the calls for a key after one more call with hash at now: the hash of the
\* last call, and the now of the last call whose hash differed from the one
\* of the call before it (of the first call, if none did)
OneMoreCall(calls, hash, now) ==
    IF calls = None \/ calls[1][1] # hash THEN Some(<<hash, now>>)
    ELSE Some(<<hash, calls[1][2]>>)

HsInit ==
    /\ hsFile \in HsFiles
    /\ hsClock = TicksPerSecond
    /\ hsMain = MainIdle
    /\ hsLog = <<>>
    /\ hsCalls = [last    |-> [k \in HsKeys |-> CallsBehind(hsFile, k)],
                  unsaved |-> FALSE]

\* time passes
HsTick ==
    /\ hsClock < MaxTicks
    /\ hsClock' = hsClock + 1
    /\ UNCHANGED <<hsFile, hsMain, hsLog, hsCalls>>
    /\ UNCHANGED notHsVars

\* main(): history = load_history(history_path); now_iso = datetime.now(...)
\* a run starts after the previous run took its now_iso
HsMainLoad ==
    /\ hsMain.pc = "idle"
    /\ hsClock > hsMain.started
    /\ hsMain' = [pc |-> "build", history |-> load_history(hsFile),
                  now_iso |-> now_iso(hsClock), started |-> hsClock, seen |-> {}]
    /\ UNCHANGED <<hsFile, hsClock, hsLog, hsCalls>>
    /\ UNCHANGED notHsVars

\* build_top_page: update_history_entry(history, path, hash, now_iso) for
\* the next entity, each entity once; hsLog keeps the call with its run
HsRecord(path, hash) ==
    /\ hsMain.pc = "build"
    /\ key_str(path) \notin hsMain.seen
    /\ LET r == update_history_entry(hsMain.history, path, hash, hsMain.now_iso)
           call == [run |-> hsMain.started, path |-> path, hash |-> hash,
                    now |-> hsMain.now_iso, before |-> hsMain.history, after |-> r.history, ret |-> r.ret]
       IN  /\ hsMain' = [hsMain EXCEPT !.history = r.history, !.seen = @ \cup {key_str(path)}]
           /\ hsLog' = IF hsLog = <<>> THEN <<call>> ELSE <<hsLog[Len(hsLog)], call>>
           /\ hsCalls' = [hsCalls EXCEPT !.last[key_str(path)] =
                                             OneMoreCall(@, hash, hsMain.now_iso)]
    /\ UNCHANGED <<hsFile, hsClock>>
    /\ UNCHANGED notHsVars

\* main(): save_history(history_path, history), the last statement
HsMainSave ==
    /\ hsMain.pc = "build"
    /\ hsFile' = save_history(hsMain.history)
    /\ hsMain' = [hsMain EXCEPT !.pc = "idle", !.history = <<>>, !.seen = {}]
    /\ UNCHANGED <<hsClock, hsLog, hsCalls>>
    /\ UNCHANGED notHsVars

\* main(): copy_style(root) raises FileNotFoundError after build_top_page
\* made its calls; the process ends and save_history is not reached
HsMainRaise ==
    /\ hsMain.pc = "build"
    /\ hsMain.seen # {}
    /\ hsMain' = [hsMain EXCEPT !.pc = "idle", !.history = <<>>, !.seen = {}]
    /\ hsCalls' = [hsCalls EXCEPT !.unsaved = TRUE]
    /\ UNCHANGED <<hsFile, hsClock, hsLog>>
    /\ UNCHANGED notHsVars

HsNext ==
    \/ HsTick
    \/ HsMainLoad
    \/ \E path \in HsPaths, hash \in HsHashes : HsRecord(path, hash)
    \/ HsMainSave
    \/ HsMainRaise

HsIdle ==
    hsFile = NoFile /\ hsClock = 0 /\ hsMain = MainIdle /\ hsLog = <<>> /\ hsCalls = <<>>

-----------------------------------------------------------------------------
(* main() run in two checkouts of one site                                 *)

PrivateDir == << <<"p", "r", "i", "v", "a", "t", "e">> >>

SelfIntroPath == PrivateDir \o << <<"s", "e", "l", "f", "_", "i", "n", "t", "r", "o", ".", "m", "d">> >>

CssDir == PrivateDir \o << <<"c", "s", "s">> >>

StylePath == CssDir \o << <<"s", "t", "y", "l", "e", ".", "c", "s", "s">> >>

NovelDirA == PrivateDir \o << <<"a">> >>

NovelDirB == PrivateDir \o << <<"b">> >>

IndexOf(dir) == dir \o <<IndexName>>

StoryOf(dir) == dir \o << <<"1", ".", "m", "d">> >>

PbDirs == {PrivateDir, CssDir, NovelDirA, NovelDirB}

PbFilePaths ==
    {SelfIntroPath, StylePath, IndexOf(NovelDirA), StoryOf(NovelDirA),
     IndexOf(NovelDirB), StoryOf(NovelDirB)}

SiteIndex(title, status) ==
    <<HeaderLine(K_title), title, HeaderLine(K_tags), <<"-", " ", "g">>,
      HeaderLine(K_status), status, HeaderLine(K_outline), <<"o">>>>

Tree(intro, css, ia, sa, ib, sb) ==
    [p \in PbDirs \cup PbFilePaths |->
        IF p \in PbDirs THEN Directory
        ELSE IF p = SelfIntroPath THEN intro
        ELSE IF p = StylePath THEN css
        ELSE IF p = IndexOf(NovelDirA) THEN ia
        ELSE IF p = StoryOf(NovelDirA) THEN sa
        ELSE IF p = IndexOf(NovelDirB) THEN ib
        ELSE sb]

Intro == File(<< <<"h", "i">> >>)

Css == File(<<>>)

IndexT == File(SiteIndex(<<"T">>, S_Ongoing))

IndexU == File(SiteIndex(<<"U">>, S_Ongoing))

StoryC == File(StoryLines(<<"T">>, <<"1">>, <<"c">>))

StoryD == File(StoryLines(<<"T">>, <<"1">>, <<"d">>))

\* the trees: two valid novels; novel a completed; a without stories; b
\* without index.md; self_intro.md blank or absent; style.css absent; a
\* with a broken index.md and b with a broken story; a with a story number
\* int() rejects
PbTrees ==
    { Tree(Intro, Css, IndexT, StoryC, IndexU, StoryD),
      Tree(Intro, Css, File(SiteIndex(<<"U">>, S_Completed)), StoryC, IndexU, StoryD),
      Tree(Intro, Css, IndexT, NoFile, IndexU, StoryD),
      Tree(Intro, Css, IndexT, StoryC, NoFile, StoryD),
      Tree(File(<< <<" ">> >>), Css, IndexT, StoryC, IndexU, StoryD),
      Tree(NoFile, Css, IndexT, StoryC, IndexU, StoryD),
      Tree(Intro, NoFile, IndexT, StoryC, IndexU, StoryD),
      Tree(Intro, Css, File(<< <<"x">> >>), StoryC, IndexU, File(<< <<"x">> >>)),
      Tree(Intro, Css, IndexT, File(StoryLines(<<"T">>, <<"sup2">>, <<"c">>)),
           IndexU, StoryD),
      Tree(Intro, Css, IndexT, StoryC, IndexT, StoryD) }

\* the mtimes of a checkout: all files alike, or the files of one novel newer
PbMtimes ==
    { [p \in PbFilePaths |-> IF PathParent(p) = newer THEN 2 ELSE 1] :
        newer \in {PrivateDir, NovelDirA, NovelDirB} }

Checkouts == {1, 2}

\* runs of main() in the two checkouts together
MaxRuns == 3

\* main() not running: pc is "idle" before the first run, then "done",
\* "exit1" (sys.exit(1)) or "raised" (ended by an exception)
MainStart == [pc |-> "idle", runs |-> 0, todo |-> <<>>, pairs |-> <<>>, errors |-> <<>>,
              tp |-> None, loaded |-> FALSE, csv0 |-> NoFile, history |-> <<>>,
              now_iso |-> <<>>, returned |-> <<>>, contexts |-> <<>>, pages |-> {},
              written |-> None, stderr |-> <<>>]

\* main() given an error list that omits the printing
ExitSilently(run, errors) == [run EXCEPT !.pc = "exit1"]

\* main() given an error list: print(m, file=sys.stderr) for each message,
\* then sys.exit(1)
ExitWithErrors(run, errors) == [run EXCEPT !.pc = "exit1", !.stderr = errors]

Ended(run) == run.pc \in {"idle", "done", "exit1", "raised"}

\* update_history.csv as earlier runs left it: the row of a document that
\* has been deleted since
OldCsv == File(<< <<PathStr(PrivateDir \o << <<"o", ".", "m", "d">> >>), <<"h", "0">>, now_iso(0)>> >>)

\* both checkouts hold the same tree and the same update_history.csv
PbInit ==
    /\ pbFs \in PbTrees
    /\ pbMtime \in [Checkouts -> PbMtimes]
    /\ pbCsv = [r \in Checkouts |-> OldCsv]
    /\ pbRun = [r \in Checkouts |-> MainStart]

\* main() starts: TopPage.load_if_valid(self_intro) up to the directory
\* scan; an error list is printed and the process exits with status 1.
\* The checkouts share nothing while they run, so the runs are taken one
\* after the other
PbStart(r) ==
    /\ \A q \in Checkouts : Ended(pbRun[q])
    /\ pbRun[1].runs + pbRun[2].runs < MaxRuns
    /\ LET errors == SelfIntroErrors(SelfIntroPath, pbFs)
           fresh  == [MainStart EXCEPT !.runs = pbRun[r].runs + 1]
       IN  pbRun' = [pbRun EXCEPT ![r] =
               IF errors # <<>> THEN ExitWithErrors(fresh, errors)
               ELSE [fresh EXCEPT !.pc = "scan", !.todo = Children(pbFs, PrivateDir)]]
    /\ UNCHANGED <<pbFs, pbMtime, pbCsv>>
    /\ UNCHANGED notPbVars

\* TopPage.load_if_valid: one iteration of the loop over the children; a
\* ValueError out of Novel.load_if_valid ends the process
PbScan(r, order) ==
    /\ pbRun[r].pc = "scan"
    /\ pbRun[r].todo # <<>>
    /\ LET child  == Head(pbRun[r].todo)
           result == ScanChild(child, pbFs, order[1], order[2])
           next   == [pbRun[r] EXCEPT !.todo = Tail(@)]
       IN  pbRun' = [pbRun EXCEPT ![r] =
               IF result = None THEN next
               ELSE IF result[1].kind = "ValueError" THEN [next EXCEPT !.pc = "raised"]
               ELSE IF result[1].kind = "errors"
               THEN [next EXCEPT !.errors = @ \o NovelErrors(child, result[1].errors)]
               ELSE [next EXCEPT !.pairs =
                        Append(@, [novel |-> result[1].value[1], dir |-> child])]]
    /\ UNCHANGED <<pbFs, pbMtime, pbCsv>>
    /\ UNCHANGED notPbVars

\* TopPage.load_if_valid after the loop: the errors, or the TopPage with the
\* novels sorted; main() prints a list and exits with status 1
PbSort(r) ==
    /\ pbRun[r].pc = "scan"
    /\ pbRun[r].todo = <<>>
    /\ pbRun' = [pbRun EXCEPT ![r] =
           IF pbRun[r].errors # <<>>
           THEN ExitWithErrors(@, pbRun[r].errors)
           ELSE [@ EXCEPT !.pc = "valid",
                          !.tp = Some(TopPageOf(SelfIntroPath, pbFs, pbMtime[r],
                                                pbRun[r].pairs))]]
    /\ UNCHANGED <<pbFs, pbMtime, pbCsv>>
    /\ UNCHANGED notPbVars

\* main(): history = load_history(history_path); now_iso = datetime.now(...)
PbLoadHistory(r, tick) ==
    /\ pbRun[r].pc = "valid"
    /\ pbRun' = [pbRun EXCEPT ![r] = [@ EXCEPT !.pc = "loaded",
                                                !.loaded = TRUE,
                                                !.csv0 = pbCsv[r],
                                                !.history = load_history(pbCsv[r]),
                                                !.now_iso = now_iso(tick)]]
    /\ UNCHANGED <<pbFs, pbMtime, pbCsv>>
    /\ UNCHANGED notPbVars

\* build_top_page: the next update_history_entry(history, key, hash,
\* now_iso); returned keeps <<key, timestamp>> of every call
PbRecord(r) ==
    /\ pbRun[r].pc = "loaded"
    /\ Len(pbRun[r].returned) < Len(Entities(pbRun[r].tp[1]))
    /\ LET e == Entities(pbRun[r].tp[1])[Len(pbRun[r].returned) + 1]
           u == update_history_entry(pbRun[r].history, e[1], e[2], pbRun[r].now_iso)
       IN  pbRun' = [pbRun EXCEPT ![r] = [@ EXCEPT !.history = u.history,
                                                    !.returned = Append(@, <<e[1], u.ret>>)]]
    /\ UNCHANGED <<pbFs, pbMtime, pbCsv>>
    /\ UNCHANGED notPbVars

\* build_top_page returns the contexts and main() writes public/index.html;
\* copy_style(root) raises FileNotFoundError without style.css; otherwise
\* the other pages are written (the trees hold no favicon files) and
\* save_history ends the run
PbFinish(r) ==
    /\ pbRun[r].pc = "loaded"
    /\ Len(pbRun[r].returned) = Len(Entities(pbRun[r].tp[1]))
    /\ LET tp       == pbRun[r].tp[1]
           rets     == [i \in 1..(Len(pbRun[r].returned) - 1) |-> pbRun[r].returned[i + 1][2]]
           contexts == NovelContexts(tp.novels, tp.novel_directories, rets)
           built    == [pbRun[r] EXCEPT !.contexts = contexts,
                                        !.pages = {PublicDir \o <<IndexHtml>>}]
       IN  IF ~IsFile(pbFs, StylePath)
           THEN /\ pbRun' = [pbRun EXCEPT ![r] = [built EXCEPT !.pc = "raised"]]
                /\ UNCHANGED pbCsv
           ELSE /\ pbRun' = [pbRun EXCEPT ![r] =
                                [built EXCEPT !.pc = "done",
                                              !.pages = @ \cup PagesAfterStyle(contexts),
                                              !.written = Some(save_history(pbRun[r].history))]]
                /\ pbCsv' = [pbCsv EXCEPT ![r] = save_history(pbRun[r].history)]
    /\ UNCHANGED <<pbFs, pbMtime>>
    /\ UNCHANGED notPbVars

\* the update_history.csv of checkout 1 is copied to checkout 2 between runs
PbPull ==
    /\ \A r \in Checkouts : Ended(pbRun[r])
    /\ pbCsv[2] # pbCsv[1]
    /\ pbCsv' = [pbCsv EXCEPT ![2] = pbCsv[1]]
    /\ UNCHANGED <<pbFs, pbMtime, pbRun>>
    /\ UNCHANGED notPbVars

\* the row of a story is lost from the update_history.csv of checkout 1
\* after its first run (the file is edited by hand or written partially):
\* the first row, the rows after it remain
PbLoseRow ==
    /\ \A q \in Checkouts : Ended(pbRun[q])
    /\ pbRun[1].runs = 1
    /\ pbRun[2].runs = 0
    /\ pbCsv[1].exists
    /\ pbCsv[1].lines # <<>>
    /\ Head(pbCsv[1].lines)[1] = PathStr(StoryOf(NovelDirA))
    /\ pbCsv' = [pbCsv EXCEPT ![1] = File(Tail(pbCsv[1].lines))]
    /\ UNCHANGED <<pbFs, pbMtime, pbRun>>
    /\ UNCHANGED notPbVars

PbNext ==
    \/ \E r \in Checkouts :
        \/ PbStart(r)
        \/ \E order \in NvOrders : PbScan(r, order)
        \/ PbSort(r)
        \/ \E tick \in TicksPerSecond..MaxTicks : PbLoadHistory(r, tick)
        \/ PbRecord(r)
        \/ PbFinish(r)
    \/ PbPull
    \/ PbLoseRow

PbIdle == pbFs = <<>> /\ pbMtime = <<>> /\ pbCsv = <<>> /\ pbRun = <<>>

-----------------------------------------------------------------------------
(* Specifications, one per component                                       *)

InitMd == MdInit /\ StIdle /\ NvIdle /\ HsIdle /\ PbIdle

SpecMd == InitMd /\ [][MdNext]_vars

InitStory == StInit /\ MdIdle /\ NvIdle /\ HsIdle /\ PbIdle

SpecStory == InitStory /\ [][StNext]_vars

InitNovel == NvInit /\ MdIdle /\ StIdle /\ HsIdle /\ PbIdle

SpecNovel == InitNovel /\ [][NvNext]_vars

InitHistory == HsInit /\ MdIdle /\ StIdle /\ NvIdle /\ PbIdle

SpecHistory == InitHistory /\ [][HsNext]_vars

InitPublish == PbInit /\ MdIdle /\ StIdle /\ NvIdle /\ HsIdle

SpecPublish == InitPublish /\ [][PbNext]_vars

-----------------------------------------------------------------------------
(* The section grammar as the specification words it                       *)

\* a top-level marker line: after leading whitespace, "# " and a name
IsMarkerLine(line) == StartsWith(LStrip(line), H1Prefix)

MarkerName(line) == Strip(DropPrefix(LStrip(line), 2))

MarkerIdx(doc) == {i \in 1..Len(doc) : IsMarkerLine(doc[i])}

\* the names carried by two or more marker lines of doc
RepeatedNames(doc) ==
    {MarkerName(doc[i]) : i \in {k \in MarkerIdx(doc) :
        \E j \in MarkerIdx(doc) : j # k /\ MarkerName(doc[j]) = MarkerName(doc[k])}}

\* the k-th marker line of doc, and the line after its section's last line
NthMarker(doc, k) ==
    CHOOSE i \in MarkerIdx(doc) : Cardinality({j \in MarkerIdx(doc) : j < i}) = k - 1

SectionEnd(doc, i) ==
    IF \E j \in MarkerIdx(doc) : j > i
    THEN CHOOSE j \in MarkerIdx(doc) : j > i /\ \A m \in MarkerIdx(doc) : m > i => j <= m
    ELSE Len(doc) + 1

\* C7: a document in which two top-level marker lines carry the same name
\* makes md_to_json raise JsonKeyDuplicateError naming a repeated key, and no
\* section map is returned, wherever the two markers stand.
C7_DuplicateMarkersRaise ==
    (mdRet # None /\ RepeatedNames(mdDoc) # {}) =>
        /\ ~mdRet[1].ok
        /\ mdRet[1].key \in RepeatedNames(mdDoc)
        /\ mdRet[1].dict = <<>>

\* two adjacent markers with one name, the repeated name being the last section
C7_Witness ==
    /\ mdRet # None
    /\ ~mdRet[1].ok
    /\ \E i \in 1..(Len(mdDoc) - 1) :
          /\ i + 1 = Len(mdDoc)
          /\ IsMarkerLine(mdDoc[i]) /\ IsMarkerLine(mdDoc[i + 1])
          /\ MarkerName(mdDoc[i]) = MarkerName(mdDoc[i + 1])

\* C9: without repeated names md_to_json returns one key per marker line, in
\* order of appearance, and each value is the lines strictly between the marker
\* and the next marker (or the end) joined by line breaks, unchanged; lines
\* before the first marker are in no value.
C9_SectionBodies ==
    (mdRet # None /\ RepeatedNames(mdDoc) = {}) =>
        /\ mdRet[1].ok
        /\ Len(mdRet[1].dict) = Cardinality(MarkerIdx(mdDoc))
        /\ \A k \in 1..Len(mdRet[1].dict) :
              LET i == NthMarker(mdDoc, k) IN
              /\ mdRet[1].dict[k][1] = MarkerName(mdDoc[i])
              /\ mdRet[1].dict[k][2] =
                    Join(SubSeq(mdDoc, i + 1, SectionEnd(mdDoc, i) - 1), LineBreak)

\* text before the first marker, then a section holding a lower-level marker
\* line and a blank line
C9_Witness ==
    /\ mdRet # None
    /\ mdRet[1].ok
    /\ Len(mdDoc) >= 2
    /\ mdDoc[1] = <<"x">>
    /\ IsMarkerLine(mdDoc[2])
    /\ \E k \in 1..Len(mdRet[1].dict) :
          mdRet[1].dict[k][2] = <<"#", "#", " ", "a", "\n">>


\* the Story record Story.load_if_valid returned for path p
StoryAt(p) == stRet[p][1].value[1]

SameStoryData(s, t) == s.title = t.title /\ s.number = t.number /\ s.content = t.content

\* C10: two Story records with identical (title, number, content) have
\* identical hash() values, whatever their source paths.
C10_HashPathIndependent ==
    \A p, q \in StoryPaths :
        (stHash[p] # None /\ stHash[q] # None /\ SameStoryData(StoryAt(p), StoryAt(q)))
            => stHash[p] = stHash[q]

\* two stories at different paths, from different file texts, with the same data
C10_Witness ==
    /\ stHash # <<>>
    /\ stHash[StPathA] # None
    /\ stHash[StPathB] # None
    /\ stFs[StPathA] # stFs[StPathB]
    /\ StoryAt(StPathA).path # StoryAt(StPathB).path
    /\ SameStoryData(StoryAt(StPathA), StoryAt(StPathB))

\* the body of the section of doc that the marker line naming key opens
BodyOf(doc, key) ==
    LET i == CHOOSE j \in MarkerIdx(doc) : MarkerName(doc[j]) = key
    IN  Join(SubSeq(doc, i + 1, SectionEnd(doc, i) - 1), LineBreak)

IsLineBreakChar(c) == c = "\n" \/ c = "\r"

\* C11: in every Story the validator returns, length is the number of
\* characters of content that are neither line feed nor carriage return,
\* content is the body of the content section as it stands in the file, not
\* trimmed, and title is the body of the title section, trimmed.
C11_StoryFields ==
    \A p \in StoryPaths :
        (stRet # <<>> /\ stRet[p] # None /\ stRet[p][1].kind = "Story") =>
            LET s   == StoryAt(p)
                doc == stFs[p].lines
            IN  /\ s.content = BodyOf(doc, K_content)
                /\ s.title = Strip(BodyOf(doc, K_title))
                /\ s.length = Len(s.content) - Len(SelectSeq(s.content, IsLineBreakChar))

\* a Story whose content has a leading blank, a carriage return, a line feed
\* and a trailing blank, and whose title body ends in a blank
C11_Witness ==
    /\ stRet # <<>>
    /\ stRet[StPathA] # None
    /\ stRet[StPathA][1].kind = "Story"
    /\ StoryAt(StPathA).content = <<" ", "c", "\r", "\n", "d", " ">>
    /\ StoryAt(StPathA).length = 4
    /\ BodyOf(stFs[StPathA].lines, K_title) = <<"T", " ">>
    /\ StoryAt(StPathA).title = <<"T">>

-----------------------------------------------------------------------------
(* The novel directory as the specification sees it                        *)

NvIndexLines == nvFs[NvIndexPath].lines

\* the sections of index.md pass the header rules, so that the cross-story
\* rules are evaluated
NvHeaderOk(order) ==
    /\ md_to_json(NvIndexLines).ok
    /\ NovelHeader(md_to_json(NvIndexLines).dict, order).errors = <<>>
    /\ ~NovelHeader(md_to_json(NvIndexLines).dict, order).fault

\* the chapter boundaries index.md declares: a set of <<title, boundary>>
NvBoundaries ==
    LET h == NovelHeader(md_to_json(NvIndexLines).dict, SetToSeq(NovelRequired))
    IN  IF h.has_chapters THEN {h.chapters[1][i] : i \in 1..Len(h.chapters[1])} ELSE {}

\* the story documents of the directory that are valid on their own
NvValidStoryPaths ==
    {f \in NvStoryPaths :
        IsFile(nvFs, f) /\ StoryLoadIfValid(f, nvFs, SetToSeq(StoryAllowedKeys)).kind = "Story"}

NvNumberOf(f) == StoryLoadIfValid(f, nvFs, SetToSeq(StoryAllowedKeys)).value[1].number

\* the chapter of number n: the one with the smallest boundary b such that n <= b
ChapterOf(n, boundaries) ==
    {c \in boundaries : n <= c[2] /\ \A d \in boundaries : n <= d[2] => c[2] <= d[2]}

HasError(ret, m) == ret.kind = "errors" /\ \E i \in 1..Len(ret.errors) : ret.errors[i] = m

CountError(ret, m) == Cardinality({i \in 1..Len(ret.errors) : ret.errors[i] = m})

NvHeaderOkAny == NvHeaderOk(SetToSeq(NovelRequired))

\* C5: once the header rules pass and chapters are declared, a story whose
\* number exceeds every boundary makes validation fail with the "does not
\* belong to any chapter" error naming it; and in a returned Novel every story
\* stands in exactly the chapter with the smallest boundary >= its number.
C5_ChapterPartition ==
    (nvRet # None /\ NvHeaderOkAny /\ NvBoundaries # {}) =>
        /\ \A f \in NvValidStoryPaths :
              ChapterOf(NvNumberOf(f), NvBoundaries) = {} =>
                  HasError(nvRet[1],
                           Msg("does not belong to any chapter",
                               <<PathName(f), IntToStr(NvNumberOf(f))>>))
        /\ (nvRet[1].kind = "Novel" /\ nvView # None) =>
              /\ nvView[1].grouped
              /\ \A i \in 1..Len(nvRet[1].value[1].stories) :
                    LET st == nvRet[1].value[1].stories[i] IN
                    \A k \in 1..Len(nvView[1].chapters) :
                        (\E j \in 1..Len(nvView[1].chapters[k][2]) :
                            nvView[1].chapters[k][2][j] = st)
                        <=> (\E c \in ChapterOf(st.number, NvBoundaries) :
                                c[1] = nvView[1].chapters[k][1])

\* boundaries written in the order C:20, A:1, B:10; stories 1, 5 and 10 are
\* grouped as 1 -> A and 5, 10 -> B
C5_Witness ==
    /\ nvRet # None /\ nvView # None
    /\ nvRet[1].kind = "Novel"
    /\ Len(NvIndexLines) >= 10
    /\ NvIndexLines[10][1] = "C"
    /\ nvView[1].grouped
    /\ Len(nvView[1].chapters[1][2]) = 1
    /\ Len(nvView[1].chapters[2][2]) = 2
    /\ nvView[1].chapters[2][2][2].number = 10

\* a story numbered 21 under boundaries 1, 10, 20 is reported
C5_WitnessUnassigned ==
    /\ nvRet # None
    /\ NvBoundaries # {}
    /\ \E f \in NvValidStoryPaths :
          /\ NvNumberOf(f) = 21
          /\ HasError(nvRet[1], Msg("does not belong to any chapter",
                                    <<PathName(f), IntToStr(21)>>))

\* C6: once the header rules pass, the error list holds exactly one "Duplicate
\* story number found: v" for each value v carried by two or more valid
\* stories and none for any other value; and a Novel is returned only if the
\* story numbers are pairwise distinct.
C6_DuplicateNumbers ==
    nvRet # None =>
        /\ (NvHeaderOkAny /\ nvRet[1].kind = "errors") =>
              \A v \in {NvNumberOf(f) : f \in NvValidStoryPaths} :
                  CountError(nvRet[1], Msg("Duplicate story number found", <<IntToStr(v)>>))
                    = IF Cardinality({f \in NvValidStoryPaths : NvNumberOf(f) = v}) >= 2
                      THEN 1 ELSE 0
        /\ nvRet[1].kind = "Novel" =>
              \A f, g \in NvValidStoryPaths : f # g => NvNumberOf(f) # NvNumberOf(g)

\* three stories share one number: one message
C6_Witness ==
    /\ nvRet # None
    /\ nvRet[1].kind = "errors"
    /\ \E v \in 1..21 :
          /\ Cardinality({f \in NvValidStoryPaths : NvNumberOf(f) = v}) >= 3
          /\ CountError(nvRet[1], Msg("Duplicate story number found", <<IntToStr(v)>>)) = 1

HasNoMarker(lines) == MarkerIdx(lines) = {}

\* C8: for a document without any top-level marker line md_to_json returns the
\* empty map, and the Story validator and the Novel validator each return an
\* error list that includes "No H1 headers found".
C8_NoMarkers ==
    /\ (nvCall # None /\ HasNoMarker(nvFs[nvCall[1].path].lines)) =>
          IF nvCall[1].fn = "md_to_json"
          THEN nvCall[1].ret.ok /\ nvCall[1].ret.dict = <<>>
          ELSE IsFile(nvFs, nvCall[1].path) => HasError(nvCall[1].ret, E_NoH1)
    /\ (nvRet # None /\ HasNoMarker(NvIndexLines)) => HasError(nvRet[1], E_NoH1)

\* the Novel validator and the Story validator both ran on a text without
\* markers
C8_Witness ==
    /\ nvRet # None /\ nvCall # None
    /\ NvIndexLines # <<>> /\ HasNoMarker(NvIndexLines)
    /\ HasError(nvRet[1], E_NoH1)
    /\ nvCall[1].fn = "Story.load_if_valid"
    /\ nvCall[1].path # NvIndexPath
    /\ IsFile(nvFs, nvCall[1].path)
    /\ HasNoMarker(nvFs[nvCall[1].path].lines)

-----------------------------------------------------------------------------
(* The history store: record(path, hash, now)                              *)

\* the normalized path: str(path) with every backslash written as a slash
RECURSIVE Normalized(_)
Normalized(s) ==
    IF s = <<>> THEN <<>>
    ELSE <<IF Head(s) = "\\" THEN "/" ELSE Head(s)>> \o Normalized(Tail(s))

\* the entries a history holds for key k: none or one <<hash, timestamp>>
EntryOf(h, k) == {h[i][2] : i \in {j \in 1..Len(h) : h[j][1] = k}}

CallKey(c) == Normalized(PathStr(c.path))

\* the call found an entry with another hash
HashChanged(c) == \E e \in EntryOf(c.before, CallKey(c)) : e[1] # c.hash

\* C1: update_history_entry(history, path, hash, now): when the history has
\* no entry for the normalized path, or the stored hash differs from hash,
\* the entry becomes (hash, now) and now is returned; otherwise the entry
\* stays exactly as it was and the stored timestamp is returned.
C1_UpdateHistoryEntry ==
    \A i \in 1..Len(hsLog) :
        LET c == hsLog[i]
            old == EntryOf(c.before, CallKey(c))
        IN  IF old = {} \/ HashChanged(c)
            THEN EntryOf(c.after, CallKey(c)) = {<<c.hash, c.now>>} /\ c.ret = c.now
            ELSE EntryOf(c.after, CallKey(c)) = old /\ \A e \in old : c.ret = e[2]

\* a call for a path with a backslash finds the entry written under the
\* slash form with the same hash in an earlier second
C1_Witness ==
    \E i \in 1..Len(hsLog) :
        LET c == hsLog[i] IN
        /\ \E j \in 1..Len(c.path[1]) : c.path[1][j] = "\\"
        /\ EntryOf(c.before, CallKey(c)) # {}
        /\ ~HashChanged(c)
        /\ c.ret # c.now

\* C2: record(path, h, now1) followed by record(path, h, now2) returns the
\* same timestamp both times, and the store after the second call equals
\* the store after the first.
C2_RecordIdempotent ==
    Len(hsLog) = 2 =>
        LET c1 == hsLog[1]
            c2 == hsLog[2]
        IN  (c1.path = c2.path /\ c1.hash = c2.hash /\ DictEq(c2.before, c1.after))
                => (c2.ret = c1.ret /\ DictEq(c2.after, c1.after))

\* the two calls are in different runs with different now, and the first
\* one wrote the entry
C2_Witness ==
    /\ Len(hsLog) = 2
    /\ hsLog[1].path = hsLog[2].path
    /\ hsLog[1].hash = hsLog[2].hash
    /\ hsLog[1].now # hsLog[2].now
    /\ hsLog[1].ret = hsLog[1].now

\* C3 as stated: record with a changed hash returns now, and the returned
\* timestamp is strictly later than the stored one.
C3_StrictlyLater ==
    \A i \in 1..Len(hsLog) :
        LET c == hsLog[i] IN
        \A e \in EntryOf(c.before, CallKey(c)) :
            e[1] # c.hash => (c.ret = c.now /\ StrLess(e[2], c.ret))

\* C3: record with a changed hash returns now and stores (hash, now); the
\* returned timestamp is never earlier than the stored one, which an
\* earlier call wrote.
C3_ChangedHashReturnsNow ==
    \A i \in 1..Len(hsLog) :
        LET c == hsLog[i] IN
        \A e \in EntryOf(c.before, CallKey(c)) :
            e[1] # c.hash =>
                /\ c.ret = c.now
                /\ EntryOf(c.after, CallKey(c)) = {<<c.hash, c.now>>}
                /\ ~StrLess(c.ret, e[2])

\* a later run records a changed hash within the second of the run that
\* wrote the entry
C3_Witness ==
    /\ Len(hsLog) = 2
    /\ hsLog[1].run # hsLog[2].run
    /\ hsLog[1].path = hsLog[2].path
    /\ hsLog[1].hash # hsLog[2].hash
    /\ hsLog[1].ret = hsLog[1].now
    /\ hsLog[2].ret = hsLog[1].ret

-----------------------------------------------------------------------------
(* Updated dates and file modification times                               *)

\* what the update_history_entry calls of a run returned, by path
ReturnedBy(r) == {pbRun[r].returned[i] : i \in 1..Len(pbRun[r].returned)}

\* two finished runs that started from the same update_history.csv and took
\* the same now_iso; the tree is the same in both checkouts
SameHistoryAndNow ==
    /\ pbRun[1].pc = "done"
    /\ pbRun[2].pc = "done"
    /\ pbRun[1].csv0 = pbRun[2].csv0
    /\ pbRun[1].now_iso = pbRun[2].now_iso

\* C4: two runs that start from the same history, use the same now and read
\* documents with identical contents but different mtimes get the same
\* timestamp from every record call (about-document, every Novel, every
\* Story) and write back the same history.
C4_UpdatedDatesIgnoreMtimes ==
    SameHistoryAndNow =>
        /\ ReturnedBy(1) = ReturnedBy(2)
        /\ pbRun[1].written = pbRun[2].written

\* the part of C4 about the returned timestamps alone
C4_ReturnedTimestamps == SameHistoryAndNow => ReturnedBy(1) = ReturnedBy(2)

-----------------------------------------------------------------------------
(* The top page as the specification sees it                               *)

\* the TopPage a run of main() in checkout r holds
TopPageAt(r) == pbRun[r].tp[1]

HasTopPage(r) == pbRun # <<>> /\ pbRun[r].tp # None

\* the newest mtime over the index document and the Story documents of n
LatestMtime(n, mtime) ==
    LET files == {n.path} \cup {n.stories[i].path : i \in 1..Len(n.stories)}
    IN  CHOOSE t \in {mtime[f] : f \in files} : \A f \in files : mtime[f] <= t

\* ongoing before completed before stopped
StatusRank(status) ==
    CHOOSE k \in 1..3 : <<S_Ongoing, S_Completed, S_Stopped>>[k] = status

\* a may stand directly before b in the list of the top page
MayPrecede(a, b, mtime) ==
    \/ LatestMtime(a, mtime) > LatestMtime(b, mtime)
    \/ /\ LatestMtime(a, mtime) = LatestMtime(b, mtime)
       /\ \/ StatusRank(a.status) < StatusRank(b.status)
          \/ /\ StatusRank(a.status) = StatusRank(b.status)
             /\ ~StrLess(b.title, a.title)

IsPermutation(xs, ys) ==
    /\ Len(xs) = Len(ys)
    /\ \E f \in [1..Len(xs) -> 1..Len(xs)] :
          /\ \A i, j \in 1..Len(xs) : i # j => f[i] # f[j]
          /\ \A i \in 1..Len(xs) : xs[i] = ys[f[i]]

\* C12: the novels of a returned TopPage are a permutation of the accepted
\* Novels, and of two neighbours the first has the newer latest mtime, or the
\* same and the lower status rank, or both the same and a title that is not
\* greater.
C12_NovelOrder ==
    \A r \in Checkouts :
        HasTopPage(r) =>
            LET novels == TopPageAt(r).novels IN
            /\ IsPermutation(novels, [i \in 1..Len(pbRun[r].pairs) |-> pbRun[r].pairs[i].novel])
            /\ \A i \in 1..(Len(novels) - 1) :
                  MayPrecede(novels[i], novels[i + 1], pbMtime[r])

\* two novels with the same latest mtime, the completed one scanned first and
\* listed second
C12_Witness ==
    \E r \in Checkouts :
        /\ HasTopPage(r)
        /\ Len(TopPageAt(r).novels) = 2
        /\ LatestMtime(TopPageAt(r).novels[1], pbMtime[r])
             = LatestMtime(TopPageAt(r).novels[2], pbMtime[r])
        /\ TopPageAt(r).novels[1].status = S_Ongoing
        /\ TopPageAt(r).novels[2].status = S_Completed
        /\ TopPageAt(r).novels[1] = pbRun[r].pairs[2].novel

\* the novel whose files are the newest scanned second and listed first
C12_WitnessMtime ==
    \E r \in Checkouts :
        /\ HasTopPage(r)
        /\ Len(TopPageAt(r).novels) = 2
        /\ LatestMtime(TopPageAt(r).novels[1], pbMtime[r])
             > LatestMtime(TopPageAt(r).novels[2], pbMtime[r])
        /\ TopPageAt(r).novels[1] = pbRun[r].pairs[2].novel

-----------------------------------------------------------------------------
(* A run of main() that ends on validation errors                          *)

\* what a run that exited on errors has left behind: messages on stderr, no
\* history loaded or changed, no record call, nothing written
FailedRunIsClean(run) ==
    /\ run.stderr # <<>>
    /\ ~run.loaded
    /\ run.history = <<>>
    /\ run.returned = <<>>
    /\ run.pages = {}
    /\ run.written = None

\* C13: when TopPage validation gives a non-empty error list the run prints
\* the errors and exits with failure; it has written no page, has not loaded
\* the history, has made no record call and has not written the history
\* back, so update_history.csv is as it was.
C13_FailedRun ==
    [][\A r \in Checkouts :
        /\ pbRun'[r].errors # <<>> => pbRun'[r].pc \in {"scan", "exit1", "raised"}
        /\ (pbRun[r].pc # "exit1" /\ pbRun'[r].pc = "exit1") =>
                /\ FailedRunIsClean(pbRun'[r])
                /\ pbCsv' = pbCsv]_pbVars

\* a run that exited on the errors of a Novel, with rows in
\* update_history.csv
C13_Witness ==
    /\ pbRun # <<>>
    /\ \E r \in Checkouts :
          /\ pbRun[r].pc = "exit1"
          /\ pbRun[r].errors # <<>>
          /\ pbRun[r].stderr = pbRun[r].errors
          /\ pbCsv[r].exists
          /\ pbCsv[r].lines # <<>>

-----------------------------------------------------------------------------
(* The last-updated timestamp of a novel                                   *)

\* what record returned for path in the run of checkout r
ReturnedFor(r, path) ==
    CHOOSE t \in {pbRun[r].returned[i][2] :
                    i \in {j \in 1..Len(pbRun[r].returned) : pbRun[r].returned[j][1] = path}} : TRUE

\* the timestamps record returned for a novel and for each of its stories
TimestampsOf(r, novel) ==
    {ReturnedFor(r, novel.path)}
    \cup {ReturnedFor(r, novel.stories[j].path) : j \in 1..Len(novel.stories)}

\* C14: the last-updated timestamp of every Novel of a run is the greatest of
\* the timestamps record returned in that run for the Novel and for each of
\* its Stories; it is earlier than none of its Stories' timestamps.
C14_NovelLastUpdated ==
    \A r \in Checkouts :
        (pbRun # <<>> /\ HasTopPage(r)) =>
            /\ pbRun[r].pc \in {"done", "raised"} /\ pbRun[r].loaded
                    => Len(pbRun[r].contexts) = Len(TopPageAt(r).novels)
            /\ \A i \in 1..Len(pbRun[r].contexts) :
                  LET c == pbRun[r].contexts[i] IN
                  /\ c.novel = TopPageAt(r).novels[i]
                  /\ c.last_updated_iso \in TimestampsOf(r, c.novel)
                  /\ \A t \in TimestampsOf(r, c.novel) : ~StrLess(c.last_updated_iso, t)

\* a novel whose story got a later timestamp than the novel itself
C14_Witness ==
    /\ pbRun # <<>>
    /\ \E r \in Checkouts : \E i \in 1..Len(pbRun[r].contexts) :
          LET c == pbRun[r].contexts[i] IN
          /\ Len(c.novel.stories) = 1
          /\ StrLess(ReturnedFor(r, c.novel.path), ReturnedFor(r, c.novel.stories[1].path))
          /\ c.last_updated_iso = ReturnedFor(r, c.novel.stories[1].path)

-----------------------------------------------------------------------------
(* The stored timestamp and the calls made for a key                       *)

\* the entry of every key the running main() has made its call for is the
\* hash of the last call and the now of the last call that changed the hash
EntriesFollowCalls ==
    \A k \in hsMain.seen :
        hsCalls.last[k] # None /\ EntryOf(hsMain.history, k) = {hsCalls.last[k][1]}

\* C15: after any sequence of record calls for one path, over any number of
\* runs, the entry holds the hash of the most recent call and the now of the
\* most recent call whose hash differed from the hash of the call before it
\* (of the first call, if the hash never changed).
C15_LastHashChange == hsMain.pc = "build" => EntriesFollowCalls

\* the same, as long as every run that made calls reached save_history
C15_WhenSaved == (hsMain.pc = "build" /\ ~hsCalls.unsaved) => EntriesFollowCalls

\* a third call with the hash of the first two, after a call that changed
\* the hash: the entry keeps the now of that call
C15_WhenSavedWitness ==
    /\ hsMain.pc = "build"
    /\ ~hsCalls.unsaved
    /\ Len(hsLog) = 2
    /\ CallKey(hsLog[1]) = CallKey(hsLog[2])
    /\ CallKey(hsLog[2]) \in hsMain.seen
    /\ HashChanged(hsLog[1])
    /\ hsLog[2].hash = hsLog[1].hash
    /\ hsLog[2].now # hsLog[1].now
    /\ hsLog[2].ret = hsLog[1].now

-----------------------------------------------------------------------------
(* The rules of a story document as the specification words them           *)

HasSection(doc, key) == \E j \in MarkerIdx(doc) : MarkerName(doc[j]) = key

\* a present section whose body is not blank
HasNonBlank(doc, key) == HasSection(doc, key) /\ Strip(BodyOf(doc, key)) # <<>>

\* an optional sign followed by one or more decimal digits
IsSignedInteger(s) ==
    LET ds == IF s # <<>> /\ s[1] \in {"+", "-"} THEN Tail(s) ELSE s
    IN  ds # <<>> /\ \A i \in 1..Len(ds) : ds[i] \in {"0", "1", "2", "3", "4", "5", "6", "7", "8", "9"}

\* how often the message with this text about this key is in the list
StoryErrorCount(errors, text, key) ==
    Cardinality({i \in 1..Len(errors) : errors[i].text = text /\ errors[i].args = <<key>>})

\* C16: for a story document with a non-blank number section the validator
\* never faults: it returns a Story or an error list; a trimmed number that
\* is an optionally signed integer is converted to that integer, any other
\* gets the error that number must be an integer.
C16_NumberSyntax ==
    \A p \in StoryPaths :
        (stRet # <<>> /\ stRet[p] # None /\ IsFile(stFs, p)
            /\ HasNonBlank(stFs[p].lines, K_number)) =>
            LET ret == stRet[p][1]
                nb  == Strip(BodyOf(stFs[p].lines, K_number))
            IN  /\ ret.kind \in {"Story", "errors"}
                /\ IF IsSignedInteger(nb)
                   THEN /\ ret.kind = "errors" =>
                              StoryErrorCount(ret.errors, "must be an integer", K_number) = 0
                        /\ ret.kind = "Story" => ret.value[1].number = IntOf(nb)
                   ELSE /\ ret.kind = "errors"
                        /\ StoryErrorCount(ret.errors, "must be an integer", K_number) = 1

\* the same for the numbers without a digit that int() does not take
C16_AsciiNumbers ==
    \A p \in StoryPaths :
        (stRet # <<>> /\ stRet[p] # None /\ IsFile(stFs, p)
            /\ HasNonBlank(stFs[p].lines, K_number)
            /\ \A i \in 1..Len(BodyOf(stFs[p].lines, K_number)) :
                  BodyOf(stFs[p].lines, K_number)[i] # "sup2") =>
            LET ret == stRet[p][1]
                nb  == Strip(BodyOf(stFs[p].lines, K_number))
            IN  /\ ret.kind \in {"Story", "errors"}
                /\ IF IsSignedInteger(nb)
                   THEN /\ ret.kind = "errors" =>
                              StoryErrorCount(ret.errors, "must be an integer", K_number) = 0
                        /\ ret.kind = "Story" => ret.value[1].number = IntOf(nb)
                   ELSE /\ ret.kind = "errors"
                        /\ StoryErrorCount(ret.errors, "must be an integer", K_number) = 1

SectionNames(doc) == {MarkerName(doc[j]) : j \in MarkerIdx(doc)}

RecognizedNames == {K_title, K_number, K_content}

\* the violations of a story document, as <<message text, key>>
StoryViolations(doc) ==
    {<<"Unexpected header", k>> : k \in SectionNames(doc) \ RecognizedNames}
    \cup {<<"Missing required header", k>> : k \in RecognizedNames \ SectionNames(doc)}
    \cup {<<"must not be empty", k>> :
            k \in {n \in RecognizedNames \cap SectionNames(doc) : Strip(BodyOf(doc, n)) = <<>>}}
    \cup {<<"must be a single line", k>> :
            k \in {n \in {K_title} \cap SectionNames(doc) :
                    \E i \in 1..Len(BodyOf(doc, n)) : IsLineBreakChar(BodyOf(doc, n)[i])}}
    \cup {<<"must be an integer", k>> :
            k \in {n \in {K_number} : HasNonBlank(doc, n)
                                        /\ ~IsSignedInteger(Strip(BodyOf(doc, n)))}}

ViolationTexts ==
    {"Unexpected header", "Missing required header", "must not be empty",
     "must be a single line", "must be an integer"}

\* the validator returned a Story for a document without violations, and
\* otherwise an error list holding each violation once and no other message
\* of these five kinds
StoryResultIsExhaustive(p) ==
    LET ret == stRet[p][1]
        doc == stFs[p].lines
    IN  /\ ret.kind \in {"Story", "errors"}
        /\ ret.kind = "Story" <=> StoryViolations(doc) = {}
        /\ ret.kind = "errors" =>
              /\ \A v \in StoryViolations(doc) : StoryErrorCount(ret.errors, v[1], v[2]) = 1
              /\ \A i \in 1..Len(ret.errors) :
                    ret.errors[i].text \in ViolationTexts
                        => <<ret.errors[i].text, ret.errors[i].args[1]>> \in StoryViolations(doc)

StoryLoaded(p) == stRet # <<>> /\ stRet[p] # None /\ IsFile(stFs, p)

\* C17: for an existing story document without repeated section names the
\* error list holds one "Unexpected header" per unrecognized key, one
\* "Missing required header" per absent recognized name, one "must not be
\* empty" per blank recognized section, the single-line error exactly when
\* the title body has a line break and the integer error exactly when number
\* is non-blank and not an integer, all in one list; a Story is returned
\* exactly when there is no violation.
C17_StoryExhaustive ==
    \A p \in StoryPaths :
        (StoryLoaded(p) /\ RepeatedNames(stFs[p].lines) = {}) => StoryResultIsExhaustive(p)

\* the same for the documents whose number has no digit that int() does not
\* take
C17_DecimalNumbers ==
    \A p \in StoryPaths :
        (StoryLoaded(p) /\ RepeatedNames(stFs[p].lines) = {}
            /\ ~(HasSection(stFs[p].lines, K_number)
                  /\ \E i \in 1..Len(BodyOf(stFs[p].lines, K_number)) :
                         BodyOf(stFs[p].lines, K_number)[i] = "sup2"))
            => StoryResultIsExhaustive(p)

\* four violations of four kinds in one list
C17_DecimalNumbersWitness ==
    /\ StoryLoaded(StPathA)
    /\ stRet[StPathA][1].kind = "errors"
    /\ Cardinality(StoryViolations(stFs[StPathA].lines)) = 4
    /\ Cardinality({v[1] : v \in StoryViolations(stFs[StPathA].lines)}) = 4
    /\ StoryResultIsExhaustive(StPathA)

-----------------------------------------------------------------------------
(* The errors of the story documents in the error list of the novel        *)

\* what the Story validator says about the story document f of the directory
NvStoryResult(f) == StoryLoadIfValid(f, nvFs, SetToSeq(StoryAllowedKeys))

\* the story documents of the directory that are invalid on their own
NvInvalidStoryPaths ==
    {f \in NvStoryPaths : IsFile(nvFs, f) /\ NvStoryResult(f).kind = "errors"}

\* every error of every invalid story document is in the list of the novel,
\* with the path of the story file in front
StoryErrorsPropagated ==
    \A f \in NvInvalidStoryPaths :
        \A i \in 1..Len(NvStoryResult(f).errors) :
            \E k \in 1..Len(nvRet[1].errors) :
                nvRet[1].errors[k] =
                    [NvStoryResult(f).errors[i] EXCEPT !.at = <<PathStr(f)>> \o @]

NovelFailed == nvRet # None /\ nvRet[1].kind = "errors"

-----------------------------------------------------------------------------
(* The errors of the novels in the error list of the top page              *)

\* the immediate subdirectories of private/ that hold an index document
NovelDirs == {d \in DOMAIN pbFs : PathParent(d) = PrivateDir /\ IsDir(pbFs, d)
                                   /\ IsFile(pbFs, IndexOf(d))}

\* how often message m is in the list
Occurrences(list, m) == Cardinality({i \in 1..Len(list) : list[i] = m})

\* the directory a message of the top page is about
DirOfMessage(m) == CHOOSE d \in NovelDirs : m.at[1] = PathStr(IndexOf(d))

\* list holds, for each failing directory, the messages of its Novel with
\* the path of its index document in front, the directories in
\* lexicographic order, and nothing else; result gives for each directory
\* what the Novel validator says
IsAccumulated(list, result) ==
    /\ \A i \in 1..Len(list) :
          /\ \E d \in NovelDirs : list[i].at[1] = PathStr(IndexOf(d))
          /\ result[DirOfMessage(list[i])].kind = "errors"
    /\ \A i, j \in 1..Len(list) :
          i < j => ~StrLess(PathName(DirOfMessage(list[j])), PathName(DirOfMessage(list[i])))
    /\ \A d \in NovelDirs :
          result[d].kind = "errors" =>
              /\ \A k \in 1..Len(result[d].errors) :
                    LET m == [result[d].errors[k] EXCEPT !.at = <<PathStr(IndexOf(d))>> \o @]
                    IN  Occurrences(list, m) = Occurrences(result[d].errors, result[d].errors[k])
              /\ Cardinality({i \in 1..Len(list) : DirOfMessage(list[i]) = d})
                    = Len(result[d].errors)

\* what TopPage.load_if_valid gave the run: a TopPage with every directory
\* accepted when no Novel failed, and otherwise the accumulated list
ScanOutcome(run, result) ==
    /\ run.pc = "valid" <=> \A d \in NovelDirs : result[d].kind = "Novel"
    /\ run.pc = "valid" =>
          {run.tp[1].novel_directories[i] : i \in 1..Len(run.tp[1].novel_directories)}
              = NovelDirs
    /\ run.pc = "exit1" => IsAccumulated(run.stderr, result)

NovelResults ==
    [d \in NovelDirs |-> NovelLoadIfValid(IndexOf(d), pbFs, SetToSeq(NovelRequired),
                                           SetToSeq(StoryAllowedKeys))]

ScanEnds(r) == pbRun[r].pc = "scan" /\ pbRun'[r].pc \in {"valid", "exit1"}

\* C19: with a non-blank about-document every immediate subdirectory that
\* holds an index document is validated, in lexicographic order; the error
\* list is the messages of every failing Novel in that order, each with the
\* path of its index document in front; an invalid Novel does not stop the
\* validation of later directories; a TopPage is returned exactly when no
\* Novel failed.
C19_Accumulation ==
    [][\A r \in Checkouts :
        /\ pbRun[r].pc = "scan" => pbRun'[r].pc # "raised"
        /\ ScanEnds(r) => \A result \in {NovelResults} : ScanOutcome(pbRun'[r], result)]_pbVars

\* the same for the steps in which no Novel validation ends by an exception
C19_WithoutFault ==
    [][\A r \in Checkouts :
        ScanEnds(r) => \A result \in {NovelResults} : ScanOutcome(pbRun'[r], result)]_pbVars

\* the list of a run holds messages of two directories
C19_WithoutFaultWitness ==
    /\ pbRun # <<>>
    /\ \E r \in Checkouts :
          /\ pbRun[r].pc = "exit1"
          /\ pbRun[r].errors # <<>>
          /\ \E i, j \in 1..Len(pbRun[r].stderr) :
                /\ pbRun[r].stderr[i].at[1] = PathStr(IndexOf(NovelDirA))
                /\ pbRun[r].stderr[j].at[1] = PathStr(IndexOf(NovelDirB))
                /\ Len(pbRun[r].stderr[j].at) = 2

-----------------------------------------------------------------------------
(* The stories of a returned Novel                                         *)

\* C20: the stories of a returned Novel are exactly the valid Story records
\* of the story documents of the directory, in strictly ascending order of
\* number, whatever the order of the file names.
C20_StoriesByNumber ==
    (nvRet # None /\ nvRet[1].kind = "Novel") =>
        LET stories == nvRet[1].value[1].stories IN
        /\ {stories[i] : i \in 1..Len(stories)}
              = {NvStoryResult(f).value[1] : f \in NvValidStoryPaths}
        /\ Len(stories) = Cardinality(NvValidStoryPaths)
        /\ \A i \in 1..(Len(stories) - 1) : stories[i].number < stories[i + 1].number

\* three stories whose numbers descend as their file names ascend
C20_Witness ==
    /\ nvRet # None
    /\ nvRet[1].kind = "Novel"
    /\ Cardinality(NvValidStoryPaths) >= 3
    /\ NvNumberOf(NvStoryPath(1)) > NvNumberOf(NvStoryPath(2))
    /\ NvNumberOf(NvStoryPath(2)) > NvNumberOf(NvStoryPath(3))
    /\ nvRet[1].value[1].stories[1].path = NvStoryPath(3)

-----------------------------------------------------------------------------
(* The chapters of a returned Novel                                        *)

\* the line of index.md that opens the chapters section
ChaptersMarker(doc) == CHOOSE i \in MarkerIdx(doc) : MarkerName(doc[i]) = K_chapters

\* the index documents that differ from doc in the order of the chapter
\* lines only
ChapterLineOrders(doc) ==
    LET i    == ChaptersMarker(doc)
        j    == SectionEnd(doc, i)
        body == SubSeq(doc, i + 1, j - 1)
    IN  {SubSeq(doc, 1, i) \o [k \in 1..Len(body) |-> body[o[k]]] \o SubSeq(doc, j, Len(doc)) :
            o \in {f \in [1..Len(body) -> 1..Len(body)] :
                      \A a, b \in 1..Len(body) : a # b => f[a] # f[b]}}

\* the directory with index.md replaced by doc
WithIndex(doc) == [nvFs EXCEPT ![NvIndexPath] = File(doc)]

\* titles and boundaries pairwise distinct, boundaries strictly ascending
IsCanonical(chapters) ==
    /\ \A i, j \in 1..Len(chapters) :
          i # j => chapters[i][1] # chapters[j][1] /\ chapters[i][2] # chapters[j][2]
    /\ \A i \in 1..(Len(chapters) - 1) : chapters[i][2] < chapters[i + 1][2]

\* Novel.load_if_valid returns a Novel with chapters in this step
ReturnsChapters ==
    /\ nvRet = None
    /\ nvRet' # None
    /\ nvRet'[1].kind = "Novel"
    /\ nvRet'[1].value[1].has_chapters

\* C21: the chapters of a returned Novel have pairwise distinct titles and
\* boundaries and stand in strictly ascending boundary order; an index
\* document that differs only in the order of its chapter lines gives the
\* same chapters in the same order, the same chapter for every story and
\* the same Novel hash.
C21_CanonicalChapters ==
    [][ReturnsChapters =>
        LET novel == nvRet'[1].value[1] IN
        /\ IsCanonical(novel.chapters[1])
        /\ \A doc \in ChapterLineOrders(NvIndexLines) :
              \A other \in {NovelLoadIfValid(NvIndexPath, WithIndex(doc), SetToSeq(NovelRequired),
                                              SetToSeq(StoryAllowedKeys))} :
                  /\ other.kind = "Novel"
                  /\ other.value[1].chapters = novel.chapters
                  /\ get_stories_ordered(other.value[1]) = get_stories_ordered(novel)
                  /\ NovelHash(other.value[1]) = NovelHash(novel)]_nvVars

\* a Novel from an index document whose chapter lines are not in ascending
\* boundary order, with a story in the chapter of the last line
C21_Witness ==
    /\ nvRet # None
    /\ nvRet[1].kind = "Novel"
    /\ nvRet[1].value[1].has_chapters
    /\ NvIndexLines[ChaptersMarker(NvIndexLines) + 1] = ChapterLine("C", <<"2", "0">>)
    /\ nvRet[1].value[1].chapters[1][1] = <<"A", 1>>
    /\ \E i \in 1..Len(nvRet[1].value[1].stories) : nvRet[1].value[1].stories[i].number = 10

-----------------------------------------------------------------------------
(* The chapter-grouped view                                                *)

\* the boundary index.md declares for the chapter title
BoundaryOf(title) == (CHOOSE c \in NvBoundaries : c[1] = title)[2]

\* the tuples of the view, one after the other in key order
ViewStories(view) == Flatten([k \in 1..Len(view.chapters) |-> view.chapters[k][2]])

\* C22: with chapters, get_stories_ordered() has the chapter titles as keys in
\* ascending boundary order, every Story of the Novel is in the tuple of
\* exactly one chapter, each tuple is ascending by number, and the tuples
\* concatenated in key order are `stories`; without chapters it returns
\* `stories` itself.
C22_ChapterView ==
    (nvRet # None /\ nvView # None) =>
        LET novel == nvRet[1].value[1]
            view  == nvView[1]
        IN  IF NvBoundaries = {}
            THEN ~view.grouped /\ view.stories = novel.stories
            ELSE /\ view.grouped
                 /\ {view.chapters[k][1] : k \in 1..Len(view.chapters)}
                        = {c[1] : c \in NvBoundaries}
                 /\ Len(view.chapters) = Cardinality(NvBoundaries)
                 /\ \A k \in 1..(Len(view.chapters) - 1) :
                        BoundaryOf(view.chapters[k][1]) < BoundaryOf(view.chapters[k + 1][1])
                 /\ \A i \in 1..Len(novel.stories) :
                        Cardinality({<<k, j>> \in (1..Len(view.chapters)) \X (1..Len(novel.stories)) :
                                        /\ j <= Len(view.chapters[k][2])
                                        /\ view.chapters[k][2][j] = novel.stories[i]}) = 1
                 /\ \A k \in 1..Len(view.chapters) :
                        \A j \in 1..(Len(view.chapters[k][2]) - 1) :
                            view.chapters[k][2][j].number < view.chapters[k][2][j + 1].number
                 /\ ViewStories(view) = novel.stories

\* three chapters, the first and the second with stories, the third empty
C22_Witness ==
    /\ nvRet # None /\ nvView # None
    /\ nvView[1].grouped
    /\ Len(nvView[1].chapters) = 3
    /\ Len(nvView[1].chapters[1][2]) = 1
    /\ Len(nvView[1].chapters[2][2]) = 2
    /\ nvView[1].chapters[3][2] = <<>>

\* a Novel without chapters and with three stories
C22_WitnessFlat ==
    /\ nvRet # None /\ nvView # None
    /\ ~nvView[1].grouped
    /\ Len(nvView[1].stories) = 3

-----------------------------------------------------------------------------
(* The external links rule                                                 *)

\* index.md has an `external links` section
NvHasLinks ==
    /\ md_to_json(NvIndexLines).ok
    /\ \E i \in MarkerIdx(NvIndexLines) : MarkerName(NvIndexLines[i]) = K_external_links

\* the lines of the external links section that are not blank, trimmed
LinkSectionLines ==
    LET i     == CHOOSE j \in MarkerIdx(NvIndexLines) :
                     MarkerName(NvIndexLines[j]) = K_external_links
        lines == SubSeq(NvIndexLines, i + 1, SectionEnd(NvIndexLines, i) - 1)
        NonBlank(l) == Strip(l) # <<>>
    IN  [k \in 1..Len(SelectSeq(lines, NonBlank)) |-> Strip(SelectSeq(lines, NonBlank)[k])]

\* the text of a bullet item: the line without the bullet marker and the
\* whitespace around what follows
ItemText(l) == Strip(SubSeq(l, 3, Len(l)))

IsBullet(l) == Len(l) >= 2 /\ l[1] = "-" /\ l[2] = " "

HasChar(s, c) == \E i \in 1..Len(s) : s[i] = c

HasPair(s, c, d) == \E i \in 1..(Len(s) - 1) : s[i] = c /\ s[i + 1] = d

\* a non-empty bullet list whose items contain "[" and "](" and end in ")"
LinkListContaining ==
    /\ LinkSectionLines # <<>>
    /\ \A k \in 1..Len(LinkSectionLines) :
          LET l == LinkSectionLines[k] IN
          /\ IsBullet(l)
          /\ HasChar(ItemText(l), "[")
          /\ HasPair(ItemText(l), "]", "(")
          /\ ItemText(l) # <<>> /\ ItemText(l)[Len(ItemText(l))] = ")"

\* a non-empty bullet list whose items start with "[", contain "](" and end
\* in ")"
LinkListStarting ==
    /\ LinkSectionLines # <<>>
    /\ \A k \in 1..Len(LinkSectionLines) :
          LET l == LinkSectionLines[k] IN
          /\ IsBullet(l)
          /\ ItemText(l) # <<>> /\ ItemText(l)[1] = "["
          /\ HasPair(ItemText(l), "]", "(")
          /\ ItemText(l)[Len(ItemText(l))] = ")"

\* the validation reports the external links section
LinksRejected ==
    \/ HasError(nvRet[1], Msg("external links must be a Markdown list with at least one item", <<>>))
    \/ HasError(nvRet[1], Msg("external links must be a Markdown list", <<>>))
    \/ HasError(nvRet[1], Msg("Each external links item must contain a Markdown link", <<>>))

C23_WitnessRejected ==
    /\ nvRet # None /\ NvHasLinks
    /\ LinkSectionLines # <<>>
    /\ LinkSectionLines[1][3] = "x"
    /\ HasError(nvRet[1], Msg("Each external links item must contain a Markdown link", <<>>))

-----------------------------------------------------------------------------
(* The marker grammar                                                      *)

\* the line is, after its leading whitespace, the marker character, one
\* space and a non-empty name
IsNamedMarker(line) == IsMarkerLine(line) /\ MarkerName(line) # <<>>

\* the line is, after its leading whitespace, "# " and whitespace only
IsBareMarker(line) == IsMarkerLine(line) /\ MarkerName(line) = <<>>

\* the line read last started a section
StartedSection ==
    /\ mdPos > 0
    /\ mdSt.raised = None
    /\ mdSt.current_key = Some(MarkerName(mdDoc[mdPos]))
    /\ mdSt.buffer = <<>>
    /\ IsMarkerLine(mdDoc[mdPos])

\* the keys of the returned section map
ReturnedKeys == {mdRet[1].dict[i][1] : i \in 1..Len(mdRet[1].dict)}

\* C24 as stated: only a line with a non-empty name is a top-level marker;
\* every key of a returned section map is a non-empty string, and a line of
\* only "# " and whitespace starts no section.
C24_NamedMarkers ==
    /\ (mdRet # None /\ mdRet[1].ok) => <<>> \notin ReturnedKeys
    /\ (mdPos > 0 /\ IsBareMarker(mdDoc[mdPos])) => ~StartedSection

\* C24: a line is a top-level marker exactly if, after its leading
\* whitespace, it begins with the marker character and one space; its name
\* is the rest of the line without the whitespace around it and may be
\* empty. Every key of a returned section map is the name of a marker line
\* of the document, and the line read last started a section exactly if it
\* is such a line, with or without a name.
C24_MarkerGrammar ==
    /\ (mdRet # None /\ mdRet[1].ok) =>
          ReturnedKeys = {MarkerName(mdDoc[i]) : i \in MarkerIdx(mdDoc)}
    /\ (mdPos > 0 /\ mdSt.raised = None) =>
          (StartedSection <=> IsMarkerLine(mdDoc[mdPos]))

\* "# " between blanks started the section with the empty name, which is a
\* key of the returned map besides the key a
C24_Witness ==
    /\ mdRet # None /\ mdRet[1].ok
    /\ mdDoc # <<>>
    /\ mdDoc[Len(mdDoc)] = <<" ", "#", " ", " ">>
    /\ StartedSection
    /\ ReturnedKeys = {<<>>, <<"a">>}

-----------------------------------------------------------------------------
(* Loading the history                                                     *)

\* the rows of update_history.csv with three fields
FullRows == {i \in 1..Len(hsFile.lines) : Len(hsFile.lines[i]) = 3}

\* the last row with three fields for each path
LastRows == {i \in FullRows : \A j \in FullRows : hsFile.lines[j][1] = hsFile.lines[i][1] => j <= i}

\* main() holds the history as load_history returned it
JustLoaded == hsMain.pc = "build" /\ hsMain.seen = {}

\* C25: load_history returns a mapping with exactly the rows of three fields,
\* a later row of a path replacing an earlier one; rows with another number
\* of fields contribute nothing, and an absent file loads as the empty
\* mapping.
C25_LoadHistory ==
    JustLoaded =>
        /\ \A i, j \in 1..Len(hsMain.history) :
              hsMain.history[i][1] = hsMain.history[j][1] => i = j
        /\ {<<e[1], e[2][1], e[2][2]>> : e \in {hsMain.history[i] : i \in 1..Len(hsMain.history)}}
              = IF hsFile.exists THEN {hsFile.lines[i] : i \in LastRows} ELSE {}

\* loaded from a file with rows of no, one and four fields and with two rows
\* for q: three entries, the one of q from the later row
C25_Witness ==
    /\ JustLoaded
    /\ \E i \in 1..Len(hsFile.lines) : Len(hsFile.lines[i]) = 4
    /\ \E i \in 1..Len(hsFile.lines) : Len(hsFile.lines[i]) = 0
    /\ Len(hsMain.history) = 3
    /\ DictGet(hsMain.history, <<"q">>, None) = <<<<"h", "2">>, now_iso(0)>>

\* no update_history.csv: the empty mapping
C25_WitnessAbsent == JustLoaded /\ ~hsFile.exists /\ hsMain.history = <<>>

-----------------------------------------------------------------------------
(* The write-back of the history                                           *)

\* the run of checkout r ends in this step, having loaded the history
LoadedRunEnds(r) ==
    /\ pbRun[r].pc = "loaded"
    /\ pbRun'[r].pc \in {"done", "raised"}

\* C26: every run that loads the history writes the in-memory store back
\* before it ends, also when it ends early on a fatal I/O error after its
\* record calls and after pages were written.
C26_WriteBackOnEveryExit ==
    [][\A r \in Checkouts :
        LoadedRunEnds(r) =>
            /\ pbRun'[r].written = Some(save_history(pbRun[r].history))
            /\ pbCsv'[r] = save_history(pbRun[r].history)]_pbVars

\* a run that reaches the end of main() has written the store back
C26_WriteBackAtEnd ==
    [][\A r \in Checkouts :
        (LoadedRunEnds(r) /\ pbRun'[r].pc = "done") =>
            /\ pbRun'[r].written = Some(save_history(pbRun[r].history))
            /\ pbCsv'[r] = save_history(pbRun[r].history)]_pbVars

\* a run ended by copy_style with index.html written, its record calls made
\* and update_history.csv without their entries
C26_WitnessRaised ==
    /\ pbRun # <<>>
    /\ \E r \in Checkouts :
          /\ pbRun[r].pc = "raised"
          /\ pbRun[r].loaded
          /\ pbRun[r].pages = {PublicDir \o <<IndexHtml>>}
          /\ pbRun[r].written = None
          /\ ~DictEq(load_history(pbCsv[r]), pbRun[r].history)

-----------------------------------------------------------------------------
(* The directories of the novels of a TopPage                              *)

\* the three sort keys of the two Novels are equal
FullyTied(a, b, mtime) ==
    /\ LatestMtime(a, mtime) = LatestMtime(b, mtime)
    /\ a.status = b.status
    /\ a.title = b.title

\* C27: in every returned TopPage novels and novel_directories have the same
\* length and novel_directories[i] is the parent directory of
\* novels[i].path, also when Novels tie on all three sort keys.
C27_ParallelDirectories ==
    \A r \in Checkouts :
        HasTopPage(r) =>
            /\ Len(TopPageAt(r).novel_directories) = Len(TopPageAt(r).novels)
            /\ \A i \in 1..Len(TopPageAt(r).novels) :
                  TopPageAt(r).novel_directories[i] = PathParent(TopPageAt(r).novels[i].path)

\* a TopPage of two Novels with the same title, status and latest mtime
C27_Witness ==
    \E r \in Checkouts :
        /\ HasTopPage(r)
        /\ Len(TopPageAt(r).novels) = 2
        /\ TopPageAt(r).novels[1] # TopPageAt(r).novels[2]
        /\ FullyTied(TopPageAt(r).novels[1], TopPageAt(r).novels[2], pbMtime[r])

\* a TopPage whose Novels are not in the order of the scan
C27_WitnessReordered ==
    \E r \in Checkouts :
        /\ HasTopPage(r)
        /\ Len(TopPageAt(r).novels) = 2
        /\ TopPageAt(r).novel_directories = <<NovelDirB, NovelDirA>>

-----------------------------------------------------------------------------
(* What the Novel hash tells apart                                         *)

\* the fields Novel.hash() chains
HashedFields(n) ==
    <<n.title, n.tags, n.status, n.outline, n.external_links, n.chapters,
      [i \in 1..Len(n.stories) |-> StoryHash(n.stories[i])]>>

\* Novel.load_if_valid returns a Novel in this step
ReturnsNovel == nvRet = None /\ nvRet' # None /\ nvRet'[1].kind = "Novel"

\* the Novels of the directory under the other index documents
OtherNovels ==
    {r.value[1] : r \in {x \in {NovelLoadIfValid(NvIndexPath, WithIndex(doc),
                                                  SetToSeq(NovelRequired), SetToSeq(StoryAllowedKeys)) :
                                    doc \in NvIndexDocs} : x.kind = "Novel"}}

\* C28: two valid Novels that differ in one of title, tags, status, outline,
\* external_links, chapters and the sequence of Story hashes have different
\* hash inputs, hence different hashes.
C28_HashInputInjective ==
    [][ReturnsNovel =>
        \A other \in OtherNovels :
            HashedFields(other) # HashedFields(nvRet'[1].value[1]) =>
                /\ NovelHashBase(other) # NovelHashBase(nvRet'[1].value[1])
                /\ NovelHash(other) # NovelHash(nvRet'[1].value[1])]_nvVars

\* the Novel with the link as its external links section, while the index
\* document with the link at the end of the outline gives the same hash
C28_WitnessCollision ==
    /\ nvRet # None
    /\ nvRet[1].kind = "Novel"
    /\ nvRet[1].value[1].external_links = Some(LinkAB \o LineBreak)
    /\ \E other \in OtherNovels :
          /\ other.external_links = None
          /\ other.outline = <<"o">> \o LineBreak \o LinkAB
          /\ NovelHash(other) = NovelHash(nvRet[1].value[1])

-----------------------------------------------------------------------------
(* The order of the error list                                             *)

\* Story.load_if_valid(p) returns in this step
StoryReturns(p) == stRet[p] = None /\ stRet'[p] # None

\* what Story.load_if_valid(p) returns on the unchanged file in a process
\* that iterates allowed_keys in any of its orders
StoryResultsAgain(p) ==
    {StoryLoadIfValid(p, stFs, order) : order \in Orders(StoryAllowedKeys)}

\* C29: validating the same unchanged Story document again, in the same or
\* in another run, returns the same error strings in the same order, also
\* for several "Missing required header" messages.
C29_SameErrorList ==
    [][\A p \in StoryPaths :
        StoryReturns(p) => StoryResultsAgain(p) = {stRet'[p][1]}]_stVars

\* whatever the order of iteration, the error list of the unchanged
\* document has the same strings, each as often
C29_SameErrors ==
    [][\A p \in StoryPaths :
        StoryReturns(p) =>
            \A again \in StoryResultsAgain(p) :
                /\ again.kind = stRet'[p][1].kind
                /\ again.value = stRet'[p][1].value
                /\ IsPermutation(again.errors, stRet'[p][1].errors)]_stVars

\* a document without title and number: the two messages came in one order
\* and come in the other order under another iteration of the set
C29_WitnessOrders ==
    /\ stRet # <<>>
    /\ stRet[StPathA] # None
    /\ stRet[StPathA][1].kind = "errors"
    /\ \E i \in 1..(Len(stRet[StPathA][1].errors) - 1) :
          /\ stRet[StPathA][1].errors[i] = Msg("Missing required header", <<K_number>>)
          /\ stRet[StPathA][1].errors[i + 1] = Msg("Missing required header", <<K_title>>)
    /\ \E order \in Orders(StoryAllowedKeys) :
          \E i \in 1..(Len(stRet[StPathA][1].errors) - 1) :
              /\ StoryLoadIfValid(StPathA, stFs, order).errors[i]
                    = Msg("Missing required header", <<K_title>>)
              /\ StoryLoadIfValid(StPathA, stFs, order).errors[i + 1]
                    = Msg("Missing required header", <<K_number>>)

-----------------------------------------------------------------------------
(* What a record call leaves alone                                         *)

\* the keys of a history
KeysOf(h) == {h[i][1] : i \in 1..Len(h)}

\* the call changed nothing but the entry of its own normalized path
OnlyOwnEntry(c) ==
    /\ KeysOf(c.after) = KeysOf(c.before) \cup {CallKey(c)}
    /\ \A k \in KeysOf(c.before) \ {CallKey(c)} : EntryOf(c.after, k) = EntryOf(c.before, k)
    /\ \A k \in KeysOf(c.after) : Cardinality(EntryOf(c.after, k)) = 1

\* the paths update_history.csv has an entry for
StoredKeys(file) == KeysOf(load_history(file))

\* C30: a call of update_history_entry changes at most the entry of its own
\* normalized path, every other entry stays and none is removed; over the
\* runs the keys of the written-back store only grow, and the entry of a
\* path no run records stays as it was.
C30_FrameOfRecord ==
    [][/\ \A i \in 1..Len(hsLog') : OnlyOwnEntry(hsLog'[i])
       /\ StoredKeys(hsFile) \subseteq StoredKeys(hsFile')
       /\ \A k \in StoredKeys(hsFile) \ HsKeys :
             EntryOf(load_history(hsFile'), k) = EntryOf(load_history(hsFile), k)]_hsVars

\* a run recorded a\b under the entry of a/b beside the entries of c and
\* of q, a document that is gone, and wrote all three back
C30_Witness ==
    /\ hsMain.pc = "idle"
    /\ hsLog # <<>>
    /\ hsLog[Len(hsLog)].path = <<<<"a", "\\", "b">>>>
    /\ HashChanged(hsLog[Len(hsLog)])
    /\ KeysOf(hsLog[Len(hsLog)].after) = {<<"a", "/", "b">>, <<"c">>, <<"q">>}
    /\ load_history(hsFile) = SortedBy(hsLog[Len(hsLog)].after, HistoryKeyLess)
    /\ EntryOf(load_history(hsFile), <<"q">>) = {<<<<"h", "2">>, now_iso(0)>>}

====
